---- MODULE Spec2Model ----
(***************************************************************************)
(* Outline expansion workflow of the Outline page                          *)
(* (src/frontend/src/pages/Outline.tsx).                                    *)
(*                                                                         *)
(* The page is event driven: every handler runs to its next await, and     *)
(* every pending backend call or open event stream is a task whose answer  *)
(* arrives as a separate step.  Dialogs are kept in z-order in modals; the *)
(* user can act on the topmost one only, and on the page buttons only      *)
(* when no dialog is open.                                                  *)
(***************************************************************************)
EXTENDS Integers, Sequences, FiniteSets, TLC

\* ------------------------------------------------------------------ bounds
NumOutlines == 3
MaxStreams == 2
MaxTasks == 2
MaxPlans == 2

OutlineIds == 1..NumOutlines

VARIABLES
    outlines,                       \* store: the project's outlines, in store order
    chapterCount,                   \* backend: chapters committed per outline
    storedPlans,                    \* backend: the outline's chapters carry expansion plans
    isExpanding,                    \* useState(false), Outline.tsx:93
    cachedBatchExpansionResponse,   \* useState(null), Outline.tsx:103
    modals,                         \* open dialogs, bottom to top
    tasks,                          \* pending awaits and open streams
    streamsOpened,                  \* number of SSE streams opened so far
    ev                              \* what the last step showed or sent (the notices the
                                    \* properties read; Notice("") for any other step)

vars == <<outlines, chapterCount, storedPlans, isExpanding,
          cachedBatchExpansionResponse, modals, tasks, streamsOpened, ev>>

\* The changelog classifier is a component of its own, with a specification of
\* its own; the specification of one component leaves the other as constructed.
VARIABLES
    parts,                          \* the pieces the commit message is written from
    commitMessage,                  \* commit.commit.message
    entry                           \* what parseCommitType returned for it

classifierVars == <<parts, commitMessage, entry>>

\* no commit has been classified
NoEntry == [type |-> "none"]

ClassifierIdle ==
    /\ parts = [head |-> <<>>, scope |-> <<>>, separator |-> <<>>, body |-> <<>>]
    /\ commitMessage = <<>>
    /\ entry = NoEntry

\* The edit dialog of the page reads and writes the structure document of an
\* outline and nothing of the expansion workflow: a third specification.
VARIABLES
    structure,                      \* JSON.parse(outline.structure)
    editForm,                       \* the fields of editForm while the dialog is open
    saves                           \* number of updates of the structure so far

editVars == <<structure, editForm, saves>>

\* the edit dialog is not open
NoForm == [open |-> FALSE]

EditIdle ==
    /\ structure = <<>>
    /\ editForm = NoForm
    /\ saves = 0

\* The changelog dialog and what it keeps in localStorage: a fourth
\* specification.
VARIABLES
    localStorage,                   \* the keys changelog_cache and changelog_last_fetch
    now,                            \* Date.now()
    changelog,                      \* useState<ChangelogEntry[]>([])
    loading,                        \* useState(false)
    visible,                        \* the dialog is open
    requests,                       \* fetchChangelog calls not yet settled
    fetches,                        \* number of fetchChangelog calls so far
    error,                          \* useState<string | null>(null)
    page,                           \* useState(1)
    hasMore                         \* useState(true)

gateVars == <<localStorage, now, changelog, loading, visible, requests, fetches,
              error, page, hasMore>>

GateIdle ==
    /\ localStorage = <<>>
    /\ now = 0
    /\ changelog = <<>>
    /\ loading = FALSE
    /\ visible = FALSE
    /\ requests = {}
    /\ fetches = 0
    /\ error = [kind |-> "null"]
    /\ page = 1
    /\ hasMore = TRUE

\* handleDeleteExpandedChapters, in the two versions of the page the repository
\* holds, and the deleteChapter requests it issues: a fifth specification.
VARIABLES
    handler,                        \* the version of the page that runs
    chapters,                       \* data.chapters, the argument of the handler
    issued,                         \* the chapters a request was sent for, in order
    pending,                        \* deleteChapter requests not yet settled
    outcome                         \* idle, running, then the message shown

deleteVars == <<handler, chapters, issued, pending, outcome>>

DeleteIdle ==
    /\ handler = "none"
    /\ chapters = <<>>
    /\ issued = <<>>
    /\ pending = {}
    /\ outcome = "idle"

\* Manual creation of an outline (showManualCreateOutlineModal) works on the
\* store's list and the backend's, and on nothing of the expansion workflow:
\* a sixth specification.
VARIABLES
    backendOutlines,                \* the project's outlines on the backend
    storeOutlines,                  \* useStore().outlines as last loaded
    manualDialog,                   \* the confirm dialog and what its closure holds
    createRequests,                 \* createOutline calls not yet settled
    dialogsOpened,                  \* number of dialogs opened so far
    manualEv                        \* what the last step showed

manualVars == <<backendOutlines, storeOutlines, manualDialog, createRequests,
                dialogsOpened, manualEv>>

\* the dialog is not open
NoDialog == [open |-> FALSE]

ManualIdle ==
    /\ backendOutlines = <<>>
    /\ storeOutlines = <<>>
    /\ manualDialog = NoDialog
    /\ createRequests = {}
    /\ dialogsOpened = 0
    /\ manualEv = [notice |-> ""]

notPageVars == <<classifierVars, editVars, gateVars, deleteVars, manualVars>>
notClassifierVars == <<vars, editVars, gateVars, deleteVars, manualVars>>
notEditVars == <<vars, classifierVars, gateVars, deleteVars, manualVars>>
notGateVars == <<vars, classifierVars, editVars, deleteVars, manualVars>>
notDeleteVars == <<vars, classifierVars, editVars, gateVars, manualVars>>
notManualVars == <<vars, classifierVars, editVars, gateVars, deleteVars>>

Null == [kind |-> "null"]

\* what a step shows (message.*) or sends; Notice("") when it does neither
Notice(n) == [notice |-> n]

\* ------------------------------------------------------------ pure helpers
RECURSIVE InsertByOrder(_, _)
InsertByOrder(x, s) ==
    IF s = <<>> THEN <<x>>
    ELSE IF x.order_index < Head(s).order_index THEN <<x>> \o s
    ELSE <<Head(s)>> \o InsertByOrder(x, Tail(s))

RECURSIVE SortByOrder(_)
SortByOrder(s) ==
    IF s = <<>> THEN <<>>
    ELSE InsertByOrder(s[Len(s)], SortByOrder(SubSeq(s, 1, Len(s) - 1)))

\* the copy of outlines, left in store order
unsortedOutlines == outlines

\* const sortedOutlines = [...outlines].sort((a, b) => a.order_index - b.order_index)
sortedOutlines == SortByOrder(outlines)

\* sortedOutlines.find(o => o.id === outlineId)
currentOutlineOf(outlineId) ==
    LET hits == SelectSeq(sortedOutlines, LAMBDA o : o.id = outlineId)
    IN  IF hits = <<>> THEN Null ELSE Head(hits)

\* sortedOutlines.filter(o => o.order_index < currentOutline.order_index)
previousOutlines(currentOutline) ==
    SelectSeq(sortedOutlines, LAMBDA o : o.order_index < currentOutline.order_index)

\* ------------------------------------------------------------------ backend
\* outlineApi.getOutlineChapters: {has_chapters, chapters, expansion_plans}
getOutlineChapters(outlineId) ==
    [has_chapters    |-> chapterCount[outlineId] > 0,
     chapter_count   |-> chapterCount[outlineId],
     expansion_plans |-> IF chapterCount[outlineId] > 0 /\ storedPlans[outlineId]
                         THEN chapterCount[outlineId] ELSE 0]

\* ------------------------------------------------------------------- dialogs
\* the page buttons stay usable under the open batch preview
PageInteractiveUnderPreview == \A i \in DOMAIN modals : modals[i].kind = "batchPreview"

\* Dialogs stack in opening order; the user reaches the topmost one only, and the
\* page buttons only when none is open.
PageInteractive == modals = <<>>
Top == modals[Len(modals)]
TopIs(k) == modals # <<>> /\ Top.kind = k
Pop == SubSeq(modals, 1, Len(modals) - 1)

HasModal(ms, k) == \E i \in DOMAIN ms : ms[i].kind = k
\* a component modal driven by a visible/open flag: set...Visible(true)
Show(ms, k) == IF HasModal(ms, k) THEN ms ELSE Append(ms, [kind |-> k])
\* set...Visible(false)
Hide(ms, k) == SelectSeq(ms, LAMBDA m : m.kind # k)
\* Modal.destroyAll(): closes every dialog opened through modalApi
destroyAll(ms) == SelectSeq(ms, LAMBDA m : m.kind \in {"sse", "batchPreview"})
\* a dialog whose async onOk has settled closes
CloseBusy(ms, tid) == SelectSeq(ms, LAMBDA m : ~("busy" \in DOMAIN m /\ m.busy = tid))

\* const [sseModalVisible, setSSEModalVisible] = useState(false)
sseModalVisible == HasModal(modals, "sse")
\* const [batchPreviewVisible, setBatchPreviewVisible] = useState(false)
batchPreviewVisible == HasModal(modals, "batchPreview")

\* --------------------------------------------------------------------- tasks
FreeTid == CHOOSE n \in 1..MaxTasks : (\A t \in tasks : t.tid # n)
              /\ (\A m \in 1..(n - 1) : \E t \in tasks : t.tid = m)
CanStartTask == Cardinality(tasks) < MaxTasks

\* -------------------------------------------------------------------- Init
Ascending == [i \in OutlineIds |-> [id |-> i, order_index |-> i]]
Descending == [i \in OutlineIds |-> [id |-> i, order_index |-> NumOutlines + 1 - i]]

Init ==
    /\ outlines \in {Ascending, Descending}
    /\ chapterCount \in [OutlineIds -> {0, 1}]
    /\ \E plain \in BOOLEAN :
         storedPlans = [o \in OutlineIds |-> chapterCount[o] > 0 /\ ~plain]
    /\ isExpanding = FALSE
    /\ cachedBatchExpansionResponse = Null
    /\ modals = <<>>
    /\ tasks = {}
    /\ streamsOpened = 0
    /\ ev = Notice("")
    /\ ClassifierIdle
    /\ EditIdle
    /\ GateIdle
    /\ DeleteIdle
    /\ ManualIdle

\* ------------------------------------------------------- handleExpandOutline
\* The click on an outline's expand button: handleExpandOutline up to its first await.
ExpandClick(outlineId) ==
    /\ PageInteractive
    /\ ~isExpanding
    /\ CanStartTask
    /\ LET currentOutline == currentOutlineOf(outlineId)
           prev == IF currentOutline = Null THEN <<>>
                   ELSE previousOutlines(currentOutline)
       IN  tasks' = tasks \cup
               {[tid |-> FreeTid, kind |-> "expand", outlineId |-> outlineId,
                 prev |-> [i \in DOMAIN prev |-> prev[i].id], i |-> 1]}
    /\ isExpanding' = TRUE
    /\ ev' = Notice("")
    /\ UNCHANGED <<outlines, chapterCount, storedPlans,
                   cachedBatchExpansionResponse, modals, streamsOpened>>

\* the handler falls out of the order check without returning
afterBlockNoReturn(t) == {[t EXCEPT !.i = Len(t.prev) + 1]}

\* `return;` after the order warning (Outline.tsx:909): the handler is over
afterBlock(t) == {}

\* the catch rethrows: the handler's outer catch ends the attempt
afterPrevCheckErrorAbort(t) == {}

\* catch (error) { console.error(...) } inside the for loop: on to the next outline
afterPrevCheckError(t) == {[t EXCEPT !.i = t.i + 1]}

\* await outlineApi.getOutlineChapters(prevOutline.id) resolves; the warning names
\* prevOutline (target, the outline being expanded, is kept for the properties)
PrevCheckReturns(t) ==
    /\ t.kind = "expand"
    /\ t.i <= Len(t.prev)
    /\ LET prevOutline == t.prev[t.i]
           prevChapters == getOutlineChapters(prevOutline)
       IN  IF ~prevChapters.has_chapters
           THEN /\ isExpanding' = FALSE
                /\ modals' = Append(modals, [kind |-> "warning", outlineId |-> prevOutline,
                                                  target |-> t.outlineId])
                /\ tasks' = (tasks \ {t}) \cup afterBlock(t)
                /\ ev' = Notice("")
           ELSE /\ tasks' = (tasks \ {t}) \cup {[t EXCEPT !.i = t.i + 1]}
                /\ ev' = Notice("")
                /\ UNCHANGED <<isExpanding, modals>>
    /\ UNCHANGED <<outlines, chapterCount, storedPlans,
                   cachedBatchExpansionResponse, streamsOpened>>

\* await outlineApi.getOutlineChapters(prevOutline.id) rejects
PrevCheckThrows(t) ==
    /\ t.kind = "expand"
    /\ t.i <= Len(t.prev)
    /\ LET rest == afterPrevCheckError(t)
       IN  /\ tasks' = (tasks \ {t}) \cup rest
           /\ isExpanding' = IF rest = {} THEN FALSE ELSE isExpanding
           /\ ev' = Notice("PrevCheckFailed")
    /\ UNCHANGED <<outlines, chapterCount, storedPlans,
                   cachedBatchExpansionResponse, modals, streamsOpened>>

\* await outlineApi.getOutlineChapters(outlineId) resolves: existing plans or the form
ExistingCheckReturns(t) ==
    /\ t.kind = "expand"
    /\ t.i > Len(t.prev)
    /\ LET existingChapters == getOutlineChapters(t.outlineId)
       IN  IF existingChapters.has_chapters /\ existingChapters.expansion_plans > 0
           THEN /\ modals' = Append(modals, [kind |-> "existing", outlineId |-> t.outlineId,
                                             chapter_count |-> existingChapters.chapter_count])
                /\ ev' = Notice("")
           ELSE /\ modals' = Append(modals, [kind |-> "config", outlineId |-> t.outlineId])
                /\ ev' = Notice("")
    /\ isExpanding' = FALSE
    /\ tasks' = tasks \ {t}
    /\ UNCHANGED <<outlines, chapterCount, storedPlans,
                   cachedBatchExpansionResponse, streamsOpened>>

\* await outlineApi.getOutlineChapters(outlineId) rejects: the outer catch
ExistingCheckThrows(t) ==
    /\ t.kind = "expand"
    /\ t.i > Len(t.prev)
    /\ isExpanding' = FALSE
    /\ tasks' = tasks \ {t}
    /\ ev' = Notice("")
    /\ UNCHANGED <<outlines, chapterCount, storedPlans,
                   cachedBatchExpansionResponse, modals, streamsOpened>>

\* okText: '我知道了' of the order warning
WarningOk ==
    /\ TopIs("warning")
    /\ modals' = Pop
    /\ ev' = Notice("")
    /\ UNCHANGED <<outlines, chapterCount, storedPlans, isExpanding,
                   cachedBatchExpansionResponse, tasks, streamsOpened>>

\* ------------------------------------------------ the expansion form (onOk)
\* {...a, ...b}: the keys of b win
Spread(a, b) == [k \in DOMAIN a \cup DOMAIN b |-> IF k \in DOMAIN b THEN b[k] ELSE a[k]]

\* what expansionForm.validateFields() can resolve to
ExpansionFormValues ==
    {[target_chapter_count |-> 3, expansion_strategy |-> "balanced"],
     [target_chapter_count |-> 2, expansion_strategy |-> "climax"]}

\* the request with the commit switched on
requestDataAutoCreate(values) ==
    Spread(values, [auto_create_chapters |-> TRUE, enable_scene_analysis |-> TRUE])

\* const requestData = {...values, auto_create_chapters: false, enable_scene_analysis: true}
requestData(values) ==
    Spread(values, [auto_create_chapters |-> FALSE, enable_scene_analysis |-> TRUE])

CanOpenStream == CanStartTask /\ streamsOpened < MaxStreams

\* onOk of the expansion form, validateFields resolved: new SSEPostClient(...).connect()
ConfigOk(values) ==
    /\ TopIs("config")
    /\ CanOpenStream
    /\ modals' = Show(destroyAll(modals), "sse")
    /\ isExpanding' = TRUE
    /\ streamsOpened' = streamsOpened + 1
    /\ tasks' = tasks \cup
           {[tid |-> FreeTid, kind |-> "stream", scope |-> "single",
             outlineId |-> Top.outlineId, resulted |-> FALSE]}
    /\ ev' = [notice |-> "Request", request |-> requestData(values)]
    /\ UNCHANGED <<outlines, chapterCount, storedPlans,
                   cachedBatchExpansionResponse>>

\* onOk of the expansion form, validateFields rejected: the catch of onOk
ConfigInvalid ==
    /\ TopIs("config")
    /\ modals' = Hide(Pop, "sse")
    /\ isExpanding' = FALSE
    /\ ev' = Notice("")
    /\ UNCHANGED <<outlines, chapterCount, storedPlans,
                   cachedBatchExpansionResponse, tasks, streamsOpened>>

\* cancelText: '取消' of the expansion form
ConfigCancel ==
    /\ TopIs("config")
    /\ modals' = Pop
    /\ ev' = Notice("")
    /\ UNCHANGED <<outlines, chapterCount, storedPlans, isExpanding,
                   cachedBatchExpansionResponse, tasks, streamsOpened>>

\* ------------------------------------------------------- the stream's events
\* the plan lists a generation can return
PlanLists == {[i \in 1..MaxPlans |-> i], [i \in 1..MaxPlans |-> MaxPlans + 1 - i]}

\* const cachedPlans = response.chapter_plans
cachedPlansOf(response) == response.chapter_plans

\* onResult of the single-outline stream: showExpansionPreview(outlineId, data).
\* The dialog holds cachedPlans in its closure; response, uses (confirms so far) and
\* streamsAtResult (streams opened when the result came) are kept for the properties.
SingleResult(t, plans) ==
    /\ t.kind = "stream" /\ t.scope = "single" /\ ~t.resulted
    /\ LET data == [outline_id |-> t.outlineId, chapter_plans |-> plans]
       IN  /\ modals' = Append(Hide(modals, "sse"),
                               [kind |-> "preview", outlineId |-> t.outlineId,
                                cachedPlans |-> cachedPlansOf(data),
                                response |-> data, uses |-> 0,
                                streamsAtResult |-> streamsOpened])
           /\ ev' = Notice("")
    /\ tasks' = (tasks \ {t}) \cup {[t EXCEPT !.resulted = TRUE]}
    /\ UNCHANGED <<outlines, chapterCount, storedPlans, isExpanding,
                   cachedBatchExpansionResponse, streamsOpened>>

\* the error handler leaves the flag as it is
StreamErrorStuck(t) ==
    /\ t.kind = "stream"
    /\ modals' = Hide(modals, "sse")
    /\ tasks' = tasks \ {t}
    /\ ev' = Notice("StreamError")
    /\ UNCHANGED <<outlines, chapterCount, storedPlans, isExpanding,
                   cachedBatchExpansionResponse, streamsOpened>>

\* onError: message.error, setSSEModalVisible(false), setIsExpanding(false)
StreamError(t) ==
    /\ t.kind = "stream"
    /\ modals' = Hide(modals, "sse")
    /\ isExpanding' = FALSE
    /\ tasks' = tasks \ {t}
    /\ ev' = Notice("StreamError")
    /\ UNCHANGED <<outlines, chapterCount, storedPlans,
                   cachedBatchExpansionResponse, streamsOpened>>

\* onComplete: setSSEModalVisible(false), setIsExpanding(false)
StreamComplete(t) ==
    /\ t.kind = "stream"
    /\ modals' = Hide(modals, "sse")
    /\ isExpanding' = FALSE
    /\ tasks' = tasks \ {t}
    /\ ev' = Notice("")
    /\ UNCHANGED <<outlines, chapterCount, storedPlans,
                   cachedBatchExpansionResponse, streamsOpened>>

\* ----------------------------------- the preview and handleConfirmCreateChapters
IsBusy(m) == "busy" \in DOMAIN m

\* onOk of the preview: handleConfirmCreateChapters(outlineId, cachedPlans) up to its await
PreviewOk ==
    /\ TopIs("preview")
    /\ ~IsBusy(Top)
    /\ CanStartTask
    /\ isExpanding' = TRUE
    /\ tasks' = tasks \cup
           {[tid |-> FreeTid, kind |-> "commit", outlineId |-> Top.outlineId,
             plans |-> Top.cachedPlans,
             response |-> Top.response, streamsAtResult |-> Top.streamsAtResult]}
    /\ modals' = [modals EXCEPT ![Len(modals)] =
                     Spread(Top, [busy |-> FreeTid, uses |-> Top.uses + 1])]
    /\ ev' = Notice("")
    /\ UNCHANGED <<outlines, chapterCount, storedPlans,
                   cachedBatchExpansionResponse, streamsOpened>>

\* onCancel of the preview: message.info('已取消创建章节').  The dialog's cancel button
\* and Esc stay active while its onOk is pending, so a busy preview can be dismissed.
PreviewCancel ==
    /\ TopIs("preview")
    /\ modals' = Pop
    /\ ev' = Notice("PreviewCancel")
    /\ UNCHANGED <<outlines, chapterCount, storedPlans, isExpanding,
                   cachedBatchExpansionResponse, tasks, streamsOpened>>

\* outlineApi.createChaptersFromPlans resolves: {chapters_created}
createChaptersFromPlans(plans) == [chapters_created |-> Len(plans)]

\* catch { message.error } finally { setIsExpanding(false) }: onOk resolves, the preview closes
afterCommitFailed(ms, tid) == CloseBusy(ms, tid)

\* await outlineApi.createChaptersFromPlans(outlineId, cachedPlans) resolves
CommitReturns(t) ==
    /\ t.kind = "commit"
    /\ chapterCount' = [chapterCount EXCEPT ![t.outlineId] =
                           createChaptersFromPlans(t.plans).chapters_created]
    /\ storedPlans' = [storedPlans EXCEPT ![t.outlineId] = TRUE]
    /\ isExpanding' = FALSE
    /\ modals' = CloseBusy(modals, t.tid)
    /\ tasks' = tasks \ {t}
    /\ ev' = Notice("CommitOk")
    /\ UNCHANGED <<outlines, cachedBatchExpansionResponse, streamsOpened>>

\* the rejection is caught and reported, and the flag is left as it is
CommitFailsNoFinally(t) ==
    /\ t.kind = "commit"
    /\ modals' = afterCommitFailed(modals, t.tid)
    /\ tasks' = tasks \ {t}
    /\ ev' = Notice("CommitFailed")
    /\ UNCHANGED <<outlines, chapterCount, storedPlans, isExpanding,
                   cachedBatchExpansionResponse, streamsOpened>>

\* await outlineApi.createChaptersFromPlans(outlineId, cachedPlans) rejects
CommitFails(t) ==
    /\ t.kind = "commit"
    /\ isExpanding' = FALSE
    /\ modals' = afterCommitFailed(modals, t.tid)
    /\ tasks' = tasks \ {t}
    /\ ev' = Notice("CommitFailed")
    /\ UNCHANGED <<outlines, chapterCount, storedPlans,
                   cachedBatchExpansionResponse, streamsOpened>>

\* ------------------------------------------------ handleBatchExpandOutlines
\* the batch button: loading={isExpanding}, shown while the project has outlines
BatchExpandClick ==
    /\ PageInteractive
    /\ ~isExpanding
    /\ Len(outlines) > 0
    /\ modals' = Append(modals, [kind |-> "batchConfig"])
    /\ ev' = Notice("")
    /\ UNCHANGED <<outlines, chapterCount, storedPlans, isExpanding,
                   cachedBatchExpansionResponse, tasks, streamsOpened>>

\* what batchExpansionForm.validateFields() can resolve to
BatchFormValues ==
    {[chapters_per_outline |-> 3, expansion_strategy |-> "balanced"],
     [chapters_per_outline |-> 2, expansion_strategy |-> "detail"]}

\* const requestData = {project_id: currentProject.id, ...values, auto_create_chapters: false}
batchRequestData(values) ==
    Spread(Spread([project_id |-> "p"], values), [auto_create_chapters |-> FALSE])

\* onOk of the batch form, validateFields resolved
BatchConfigOk(values) ==
    /\ TopIs("batchConfig")
    /\ CanOpenStream
    /\ modals' = Show(destroyAll(modals), "sse")
    /\ isExpanding' = TRUE
    /\ streamsOpened' = streamsOpened + 1
    /\ tasks' = tasks \cup
           {[tid |-> FreeTid, kind |-> "stream", scope |-> "batch",
             outlineId |-> 0, resulted |-> FALSE]}
    /\ ev' = [notice |-> "Request", request |-> batchRequestData(values)]
    /\ UNCHANGED <<outlines, chapterCount, storedPlans,
                   cachedBatchExpansionResponse>>

\* onOk of the batch form, validateFields rejected
BatchConfigInvalid ==
    /\ TopIs("batchConfig")
    /\ modals' = Hide(Pop, "sse")
    /\ isExpanding' = FALSE
    /\ ev' = Notice("")
    /\ UNCHANGED <<outlines, chapterCount, storedPlans,
                   cachedBatchExpansionResponse, tasks, streamsOpened>>

\* cancelText: '取消' of the batch form
BatchConfigCancel ==
    /\ TopIs("batchConfig")
    /\ modals' = Pop
    /\ ev' = Notice("")
    /\ UNCHANGED <<outlines, chapterCount, storedPlans, isExpanding,
                   cachedBatchExpansionResponse, tasks, streamsOpened>>

\* the backend's batch result: one entry per outline without chapters, ascending
BatchPlans(plans, j) == IF j % 2 = 1 THEN plans ELSE <<plans[1]>>
BatchExpansionResults(plans) ==
    LET todo == SelectSeq(SortByOrder(outlines), LAMBDA o : chapterCount[o.id] = 0)
    IN  [j \in DOMAIN todo |->
            [outline_id |-> todo[j].id, chapter_plans |-> BatchPlans(plans, j)]]

\* the new response is appended to the one already cached
setCachedBatchExpansionResponseMerged(cache, data) ==
    [expansion_results |->
         IF cache = Null THEN data ELSE cache.expansion_results \o data,
     uses |-> 0, streamsAtResult |-> streamsOpened]

\* setCachedBatchExpansionResponse(data): the state is replaced by the new
\* response; uses counts the confirms of this response, streamsAtResult the
\* streams opened when it came (both kept for the properties)
setCachedBatchExpansionResponse(cache, data) ==
    [expansion_results |-> data, uses |-> 0, streamsAtResult |-> streamsOpened]

\* onResult of the batch stream
BatchResult(t, plans) ==
    /\ t.kind = "stream" /\ t.scope = "batch" /\ ~t.resulted
    /\ cachedBatchExpansionResponse' =
           setCachedBatchExpansionResponse(cachedBatchExpansionResponse,
                                           BatchExpansionResults(plans))
    /\ modals' = Show(Hide(modals, "sse"), "batchPreview")
    /\ tasks' = (tasks \ {t}) \cup {[t EXCEPT !.resulted = TRUE]}
    /\ ev' = [notice |-> "BatchResult", data |-> BatchExpansionResults(plans)]
    /\ UNCHANGED <<outlines, chapterCount, storedPlans, isExpanding,
                   streamsOpened>>

\* handleBatchPreviewCancel
BatchPreviewCancel ==
    /\ TopIs("batchPreview")
    /\ modals' = Hide(modals, "batchPreview")
    /\ ev' = Notice("BatchPreviewCancel")
    /\ UNCHANGED <<outlines, chapterCount, storedPlans, isExpanding,
                   cachedBatchExpansionResponse, tasks, streamsOpened>>

\* ------------------------------------------ handleConfirmBatchCreateChapters
\* the loop gives up at the first rejected call
afterCreateFailedBreak(t) == Len(t.results) + 1

\* catch inside the for loop: errors.push(...), on to the next result
afterCreateFailed(t) == t.i + 1

\* the cache is left as it is when the loop is over
cacheAfterCommitKept(cache) == cache

\* setCachedBatchExpansionResponse(null) after the loop
cacheAfterCommit(cache) == Null

\* the end of the handler after the loop: the report, the cache, finally
BatchCommitEnd(t, u) ==
    /\ cachedBatchExpansionResponse' = cacheAfterCommit(cachedBatchExpansionResponse)
    /\ isExpanding' = FALSE
    /\ tasks' = tasks \ {t}
    /\ ev' = [notice |-> "BatchReport", created |-> u.totalCreated, failed |-> u.errors,
              called |-> u.called, results |-> u.results]

\* the early return leaves the flag as setIsExpanding(true) set it
isExpandingAfterReturnStuck == TRUE

\* `return;` inside the try: finally { setIsExpanding(false) } still runs
isExpandingAfterReturn == FALSE

\* handleBatchPreviewOk with no cached response: message.error, return, finally
BatchPreviewOkNoCache ==
    /\ TopIs("batchPreview")
    /\ cachedBatchExpansionResponse = Null
    /\ modals' = Hide(modals, "batchPreview")
    /\ isExpanding' = isExpandingAfterReturn
    /\ ev' = Notice("PlanDataLost")
    /\ UNCHANGED <<outlines, chapterCount, storedPlans,
                   cachedBatchExpansionResponse, tasks, streamsOpened>>

\* handleBatchPreviewOk with an empty result list: the loop body never runs
BatchPreviewOkEmpty ==
    /\ TopIs("batchPreview")
    /\ cachedBatchExpansionResponse # Null
    /\ cachedBatchExpansionResponse.expansion_results = <<>>
    /\ modals' = Hide(modals, "batchPreview")
    /\ cachedBatchExpansionResponse' = cacheAfterCommit(cachedBatchExpansionResponse)
    /\ isExpanding' = FALSE
    /\ ev' = [notice |-> "BatchReport", created |-> 0, failed |-> 0,
              called |-> <<>>, results |-> <<>>]
    /\ UNCHANGED <<outlines, chapterCount, storedPlans, tasks, streamsOpened>>

\* handleBatchPreviewOk: handleConfirmBatchCreateChapters up to its first await
BatchPreviewOk ==
    /\ TopIs("batchPreview")
    /\ cachedBatchExpansionResponse # Null
    /\ cachedBatchExpansionResponse.expansion_results # <<>>
    /\ CanStartTask
    /\ modals' = Hide(modals, "batchPreview")
    /\ isExpanding' = TRUE
    /\ tasks' = tasks \cup
           {[tid |-> FreeTid, kind |-> "batchCommit",
             results |-> cachedBatchExpansionResponse.expansion_results,
             i |-> 1, totalCreated |-> 0, errors |-> 0, called |-> <<>>]}
    /\ cachedBatchExpansionResponse' =
           [cachedBatchExpansionResponse EXCEPT !.uses = @ + 1]
    /\ ev' = Notice("")
    /\ UNCHANGED <<outlines, chapterCount, storedPlans, streamsOpened>>

\* await outlineApi.createChaptersFromPlans(result.outline_id, result.chapter_plans) resolves
BatchCreateReturns(t) ==
    /\ t.kind = "batchCommit"
    /\ LET result == t.results[t.i]
           response == createChaptersFromPlans(result.chapter_plans)
           u == [t EXCEPT !.i = t.i + 1,
                          !.totalCreated = t.totalCreated + response.chapters_created,
                          !.called = Append(t.called, [outline_id |-> result.outline_id,
                                                       chapter_plans |-> result.chapter_plans,
                                                       ok |-> TRUE,
                                                       chapters_created |->
                                                           response.chapters_created])]
       IN  /\ chapterCount' = [chapterCount EXCEPT ![result.outline_id] =
                                  response.chapters_created]
           /\ storedPlans' = [storedPlans EXCEPT ![result.outline_id] = TRUE]
           /\ IF u.i > Len(u.results)
              THEN BatchCommitEnd(t, u)
              ELSE /\ tasks' = (tasks \ {t}) \cup {u}
                   /\ ev' = Notice("")
                   /\ UNCHANGED <<isExpanding, cachedBatchExpansionResponse>>
    /\ UNCHANGED <<outlines, modals, streamsOpened>>

\* await outlineApi.createChaptersFromPlans(...) rejects
BatchCreateFails(t) ==
    /\ t.kind = "batchCommit"
    /\ LET result == t.results[t.i]
           u == [t EXCEPT !.i = afterCreateFailed(t),
                          !.errors = t.errors + 1,
                          !.called = Append(t.called, [outline_id |-> result.outline_id,
                                                       chapter_plans |-> result.chapter_plans,
                                                       ok |-> FALSE, chapters_created |-> 0])]
       IN  IF u.i > Len(u.results)
           THEN BatchCommitEnd(t, u)
           ELSE /\ tasks' = (tasks \ {t}) \cup {u}
                /\ ev' = Notice("")
                /\ UNCHANGED <<isExpanding, cachedBatchExpansionResponse>>
    /\ UNCHANGED <<outlines, chapterCount, storedPlans, modals, streamsOpened>>

\* ------------------- showExistingExpansionPreview, handleDeleteExpandedChapters
\* 关闭: Modal.destroyAll()
ExistingClose ==
    /\ TopIs("existing")
    /\ modals' = destroyAll(modals)
    /\ ev' = Notice("")
    /\ UNCHANGED <<outlines, chapterCount, storedPlans, isExpanding,
                   cachedBatchExpansionResponse, tasks, streamsOpened>>

\* 删除所有展开的章节: Modal.destroyAll(), then the confirmation dialog
ExistingDelete ==
    /\ TopIs("existing")
    /\ modals' = Append(destroyAll(modals),
                        [kind |-> "deleteConfirm", outlineId |-> Top.outlineId,
                         chapter_count |-> Top.chapter_count])
    /\ ev' = Notice("")
    /\ UNCHANGED <<outlines, chapterCount, storedPlans, isExpanding,
                   cachedBatchExpansionResponse, tasks, streamsOpened>>

\* cancelText: '取消' of the delete confirmation
DeleteConfirmCancel ==
    /\ TopIs("deleteConfirm")
    /\ modals' = Pop
    /\ ev' = Notice("")
    /\ UNCHANGED <<outlines, chapterCount, storedPlans, isExpanding,
                   cachedBatchExpansionResponse, tasks, streamsOpened>>

\* onOk: handleDeleteExpandedChapters up to the first await chapterApi.deleteChapter
DeleteConfirmOk ==
    /\ TopIs("deleteConfirm")
    /\ ~IsBusy(Top)
    /\ CanStartTask
    /\ tasks' = tasks \cup
           {[tid |-> FreeTid, kind |-> "delete", outlineId |-> Top.outlineId,
             remaining |-> Top.chapter_count]}
    /\ modals' = [modals EXCEPT ![Len(modals)] = Spread(Top, [busy |-> FreeTid])]
    /\ ev' = Notice("")
    /\ UNCHANGED <<outlines, chapterCount, storedPlans, isExpanding,
                   cachedBatchExpansionResponse, streamsOpened>>

\* await chapterApi.deleteChapter(chapter.id) resolves
DeleteReturns(t) ==
    /\ t.kind = "delete"
    /\ LET left == IF chapterCount[t.outlineId] > 0
                   THEN chapterCount[t.outlineId] - 1 ELSE 0
       IN  /\ chapterCount' = [chapterCount EXCEPT ![t.outlineId] = left]
           /\ storedPlans' = [storedPlans EXCEPT ![t.outlineId] = @ /\ left > 0]
    /\ IF t.remaining > 1
       THEN /\ tasks' = (tasks \ {t}) \cup {[t EXCEPT !.remaining = t.remaining - 1]}
            /\ ev' = Notice("")
            /\ UNCHANGED modals
       ELSE /\ tasks' = tasks \ {t}
            /\ modals' = CloseBusy(modals, t.tid)
            /\ ev' = Notice("")
    /\ UNCHANGED <<outlines, isExpanding, cachedBatchExpansionResponse,
                   streamsOpened>>

\* await chapterApi.deleteChapter(chapter.id) rejects: the catch
DeleteFails(t) ==
    /\ t.kind = "delete"
    /\ tasks' = tasks \ {t}
    /\ modals' = CloseBusy(modals, t.tid)
    /\ ev' = Notice("")
    /\ UNCHANGED <<outlines, chapterCount, storedPlans, isExpanding,
                   cachedBatchExpansionResponse, streamsOpened>>

Next ==
    \/ (\E o \in OutlineIds : ExpandClick(o)) /\ UNCHANGED notPageVars
    \/ (\E t \in tasks : PrevCheckReturns(t)) /\ UNCHANGED notPageVars
    \/ (\E t \in tasks : PrevCheckThrows(t)) /\ UNCHANGED notPageVars
    \/ (\E t \in tasks : ExistingCheckReturns(t)) /\ UNCHANGED notPageVars
    \/ (\E t \in tasks : ExistingCheckThrows(t)) /\ UNCHANGED notPageVars
    \/ WarningOk /\ UNCHANGED notPageVars
    \/ (\E values \in ExpansionFormValues : ConfigOk(values)) /\ UNCHANGED notPageVars
    \/ ConfigInvalid /\ UNCHANGED notPageVars
    \/ ConfigCancel /\ UNCHANGED notPageVars
    \/ (\E t \in tasks, plans \in PlanLists : SingleResult(t, plans)) /\ UNCHANGED notPageVars
    \/ (\E t \in tasks : StreamError(t)) /\ UNCHANGED notPageVars
    \/ (\E t \in tasks : StreamComplete(t)) /\ UNCHANGED notPageVars
    \/ PreviewOk /\ UNCHANGED notPageVars
    \/ PreviewCancel /\ UNCHANGED notPageVars
    \/ (\E t \in tasks : CommitReturns(t)) /\ UNCHANGED notPageVars
    \/ (\E t \in tasks : CommitFails(t)) /\ UNCHANGED notPageVars
    \/ BatchExpandClick /\ UNCHANGED notPageVars
    \/ (\E values \in BatchFormValues : BatchConfigOk(values)) /\ UNCHANGED notPageVars
    \/ BatchConfigInvalid /\ UNCHANGED notPageVars
    \/ BatchConfigCancel /\ UNCHANGED notPageVars
    \/ (\E t \in tasks, plans \in PlanLists : BatchResult(t, plans)) /\ UNCHANGED notPageVars
    \/ BatchPreviewCancel /\ UNCHANGED notPageVars
    \/ BatchPreviewOkNoCache /\ UNCHANGED notPageVars
    \/ BatchPreviewOkEmpty /\ UNCHANGED notPageVars
    \/ BatchPreviewOk /\ UNCHANGED notPageVars
    \/ (\E t \in tasks : BatchCreateReturns(t)) /\ UNCHANGED notPageVars
    \/ (\E t \in tasks : BatchCreateFails(t)) /\ UNCHANGED notPageVars
    \/ ExistingClose /\ UNCHANGED notPageVars
    \/ ExistingDelete /\ UNCHANGED notPageVars
    \/ DeleteConfirmCancel /\ UNCHANGED notPageVars
    \/ DeleteConfirmOk /\ UNCHANGED notPageVars
    \/ (\E t \in tasks : DeleteReturns(t)) /\ UNCHANGED notPageVars
    \/ (\E t \in tasks : DeleteFails(t)) /\ UNCHANGED notPageVars

Spec == Init /\ [][Next]_vars

\* the page as constructed, before the project is loaded
PageIdle ==
    /\ outlines = <<>>
    /\ chapterCount = [o \in OutlineIds |-> 0]
    /\ storedPlans = [o \in OutlineIds |-> FALSE]
    /\ isExpanding = FALSE
    /\ cachedBatchExpansionResponse = Null
    /\ modals = <<>>
    /\ tasks = {}
    /\ streamsOpened = 0
    /\ ev = Notice("")

\* ================================================== changelog: parseCommitType
\* (src/unnamed/part_002, the changelog service)
\* A string is the sequence of its characters; a character outside ASCII is
\* written as its code point.  The characters of the model are the letters,
\* the punctuation of the rules, the space and the line feed.
UpperCase ==
    <<"A", "B", "C", "D", "E", "F", "G", "H", "I", "J", "K", "L", "M",
      "N", "O", "P", "Q", "R", "S", "T", "U", "V", "W", "X", "Y", "Z">>
LowerCase ==
    <<"a", "b", "c", "d", "e", "f", "g", "h", "i", "j", "k", "l", "m",
      "n", "o", "p", "q", "r", "s", "t", "u", "v", "w", "x", "y", "z">>

\* String.prototype.toLowerCase
toLowerCase(s) ==
    [i \in DOMAIN s |->
        IF \E k \in DOMAIN UpperCase : UpperCase[k] = s[i]
        THEN LowerCase[CHOOSE k \in DOMAIN UpperCase : UpperCase[k] = s[i]]
        ELSE s[i]]

\* String.prototype.startsWith
startsWith(s, p) == Len(s) >= Len(p) /\ SubSeq(s, 1, Len(p)) = p

\* String.prototype.includes
includes(s, p) == \E i \in 0..(Len(s) - Len(p)) : SubSeq(s, i + 1, i + Len(p)) = p

\* \s of a regular expression
IsSpace(c) == c \in {" ", "\n"}

\* the characters `.` does not match
IsLineTerminator(c) == c = "\n"

\* \s* from position i: the position of the first character it does not take
skipSpaces(s, i) ==
    CHOOSE j \in i..(Len(s) + 1) :
        /\ \A k \in i..(j - 1) : IsSpace(s[k])
        /\ j = Len(s) + 1 \/ ~IsSpace(s[j])

\* \s*(.+) from position i: \s* gives characters back until (.+) finds a
\* character of the line; (.+) runs to the end of that line
restMatch(s, i) ==
    LET starts == {p \in i..Len(s) : p <= skipSpaces(s, i) /\ ~IsLineTerminator(s[p])}
        start == CHOOSE p \in starts : \A q \in starts : q <= p
        stop == CHOOSE q \in start..Len(s) :
                    /\ \A k \in start..q : ~IsLineTerminator(s[k])
                    /\ q = Len(s) \/ IsLineTerminator(s[q + 1])
    IN  [matched |-> starts # {},
         text |-> IF starts # {} THEN SubSeq(s, start, stop) ELSE <<>>]

\* (?:\(([^)]+)\))?\s*:\s*(.+) from position i; no scope is scope <<>>
tailMatch(s, i) ==
    LET closes == {j \in (i + 2)..Len(s) :
                      s[j] = ")" /\ \A k \in (i + 1)..(j - 1) : s[k] # ")"}
        hasScope == i <= Len(s) /\ s[i] = "(" /\ closes # {}
        close == CHOOSE j \in closes : TRUE
        colon == skipSpaces(s, IF hasScope THEN close + 1 ELSE i)
        rest == restMatch(s, colon + 1)
        matched == colon <= Len(s) /\ s[colon] = ":" /\ rest.matched
    IN  [matched |-> matched,
         scope |-> IF matched /\ hasScope THEN SubSeq(s, i + 1, close - 1) ELSE <<>>,
         text |-> IF matched THEN rest.text ELSE <<>>]

\* the alternation (feat|feature|fix|docs|style|refactor|perf|test|chore),
\* with the string each alternative is after toLowerCase()
Tokens ==
    <<[word |-> <<"f", "e", "a", "t">>, str |-> "feat"],
      [word |-> <<"f", "e", "a", "t", "u", "r", "e">>, str |-> "feature"],
      [word |-> <<"f", "i", "x">>, str |-> "fix"],
      [word |-> <<"d", "o", "c", "s">>, str |-> "docs"],
      [word |-> <<"s", "t", "y", "l", "e">>, str |-> "style"],
      [word |-> <<"r", "e", "f", "a", "c", "t", "o", "r">>, str |-> "refactor"],
      [word |-> <<"p", "e", "r", "f">>, str |-> "perf"],
      [word |-> <<"t", "e", "s", "t">>, str |-> "test"],
      [word |-> <<"c", "h", "o", "r", "e">>, str |-> "chore"]>>

\* the alternation of the bracketed form: the same, and update
BracketTokens ==
    Tokens \o <<[word |-> <<"u", "p", "d", "a", "t", "e">>, str |-> "update"]>>

\* message.match(/^(feat|...|chore)(?:\(([^)]+)\))?\s*:\s*(.+)/i): the first
\* alternative with which the whole expression matches
conventionalMatch(message) ==
    LET lower == toLowerCase(message)
        hits == {n \in DOMAIN Tokens :
                    /\ startsWith(lower, Tokens[n].word)
                    /\ tailMatch(message, Len(Tokens[n].word) + 1).matched}
        n == CHOOSE h \in hits : \A g \in hits : h <= g
        tail == tailMatch(message, Len(Tokens[n].word) + 1)
    IN  IF hits = {} THEN [matched |-> FALSE]
        ELSE [matched |-> TRUE, typeStr |-> Tokens[n].str,
              scope |-> tail.scope, text |-> tail.text]

\* message.match(/^\[(feat|...|chore|update)\]\s*(.+)/i)
bracketMatch(message) ==
    LET lower == toLowerCase(message)
        Opens(n) == <<"[">> \o BracketTokens[n].word \o <<"]">>
        hits == {n \in DOMAIN BracketTokens :
                    /\ startsWith(lower, Opens(n))
                    /\ restMatch(message, Len(Opens(n)) + 1).matched}
        n == CHOOSE h \in hits : \A g \in hits : h <= g
    IN  IF hits = {} THEN [matched |-> FALSE]
        ELSE [matched |-> TRUE, typeStr |-> BracketTokens[n].str,
              text |-> restMatch(message, Len(Opens(n)) + 1).text]

\* message.replace(/^(w1|w2):\s*/i, ''): the prefix and the white space after
\* it are cut when the message starts with one of the words and a colon
replacePrefix(message, words) ==
    LET lower == toLowerCase(message)
        hits == {n \in DOMAIN words : startsWith(lower, words[n] \o <<":">>)}
        n == CHOOSE h \in hits : \A g \in hits : h <= g
    IN  IF hits = {} THEN message
        ELSE SubSeq(message, skipSpaces(message, Len(words[n]) + 2), Len(message))

\* the keyword groups of the fallback, in the order of the if statements
Keywords ==
    <<[type |-> "fix", words |-> {<<"U+4FEE", "U+590D">>, <<"f", "i", "x">>}],
      [type |-> "perf", words |-> {<<"U+4F18", "U+5316">>, <<"p", "e", "r", "f">>}],
      [type |-> "docs", words |-> {<<"U+6587", "U+6863">>, <<"d", "o", "c">>}],
      [type |-> "feature", words |-> {<<"U+65B0", "U+589E">>, <<"U+6DFB", "U+52A0">>, <<"U+589E", "U+52A0">>}],
      [type |-> "style", words |-> {<<"U+6837", "U+5F0F">>, <<"s", "t", "y", "l", "e">>}],
      [type |-> "refactor", words |-> {<<"U+91CD", "U+6784">>, <<"r", "e", "f", "a", "c", "t", "o", "r">>}]>>

\* the value parseCommitType returns; no scope is scope <<>>
CommitType(type, scope, cleanMessage) ==
    [type |-> type, scope |-> scope, cleanMessage |-> cleanMessage]

\* if (lowerMessage.startsWith('update:'))
updateRule(message) ==
    IF startsWith(toLowerCase(message), <<"u", "p", "d", "a", "t", "e", ":">>)
    THEN [matched |-> TRUE,
          result |-> CommitType("feature", <<>>, replacePrefix(message, << <<"u", "p", "d", "a", "t", "e">> >>))]
    ELSE [matched |-> FALSE]

\* mappedType of the conventional form
conventionalMappedType(typeStr) == IF typeStr = "feature" THEN "feature" ELSE typeStr

\* if (conventionalMatch)
conventionalRule(message) ==
    LET m == conventionalMatch(message)
    IN  IF m.matched
        THEN [matched |-> TRUE,
              result |-> CommitType(conventionalMappedType(m.typeStr), m.scope, m.text)]
        ELSE [matched |-> FALSE]

\* mappedType of the bracketed form
bracketMappedType(typeStr) ==
    IF typeStr = "update" \/ typeStr = "feature" THEN "feature" ELSE typeStr

\* if (bracketMatch)
bracketRule(message) ==
    LET m == bracketMatch(message)
    IN  IF m.matched
        THEN [matched |-> TRUE,
              result |-> CommitType(bracketMappedType(m.typeStr), <<>>, m.text)]
        ELSE [matched |-> FALSE]

\* the four prefix checks, in the order of the if statements
prefixRule(message) ==
    LET lower == toLowerCase(message)
    IN  IF startsWith(lower, <<"f", "i", "x", ":">>) \/ startsWith(lower, <<"f", "i", "x", "U+FF1A">>)
        THEN [matched |-> TRUE,
              result |-> CommitType("fix", <<>>, replacePrefix(message, << <<"f", "i", "x">> >>))]
        ELSE IF startsWith(lower, <<"p", "e", "r", "f", ":">>)
        THEN [matched |-> TRUE,
              result |-> CommitType("perf", <<>>, replacePrefix(message, << <<"p", "e", "r", "f">> >>))]
        ELSE IF startsWith(lower, <<"d", "o", "c", "s", ":">>)
        THEN [matched |-> TRUE,
              result |-> CommitType("docs", <<>>, replacePrefix(message, << <<"d", "o", "c", "s">> >>))]
        ELSE IF startsWith(lower, <<"f", "e", "a", "t", ":">>) \/ startsWith(lower, <<"f", "e", "a", "t", "u", "r", "e", ":">>)
        THEN [matched |-> TRUE,
              result |-> CommitType("feature", <<>>,
                                    replacePrefix(message, << <<"f", "e", "a", "t">>, <<"f", "e", "a", "t", "u", "r", "e">> >>))]
        ELSE [matched |-> FALSE]

\* the keyword checks: the first group one of whose words the lower-cased
\* message includes; the message is returned as it came
keywordRule(message) ==
    LET lower == toLowerCase(message)
        hits == {n \in DOMAIN Keywords : \E w \in Keywords[n].words : includes(lower, w)}
        n == CHOOSE h \in hits : \A g \in hits : h <= g
    IN  IF hits = {} THEN [matched |-> FALSE]
        ELSE [matched |-> TRUE, result |-> CommitType(Keywords[n].type, <<>>, message)]

\* return { type: 'other', cleanMessage: message }
otherResult(message) == CommitType("other", <<>>, message)

\* the keyword checks come first
parseCommitTypeKeywordsFirst(message) ==
    IF keywordRule(message).matched THEN keywordRule(message).result
    ELSE IF updateRule(message).matched THEN updateRule(message).result
    ELSE IF conventionalRule(message).matched THEN conventionalRule(message).result
    ELSE IF bracketRule(message).matched THEN bracketRule(message).result
    ELSE IF prefixRule(message).matched THEN prefixRule(message).result
    ELSE otherResult(message)

\* parseCommitType: the checks in the order of the code
parseCommitType(message) ==
    IF updateRule(message).matched THEN updateRule(message).result
    ELSE IF conventionalRule(message).matched THEN conventionalRule(message).result
    ELSE IF bracketRule(message).matched THEN bracketRule(message).result
    ELSE IF prefixRule(message).matched THEN prefixRule(message).result
    ELSE IF keywordRule(message).matched THEN keywordRule(message).result
    ELSE otherResult(message)

\* ---- the commit messages the classifier is run on: head, scope, separator
\* and body, each from a small set, written one after the other
Heads ==
    {<<>>,
     <<"f", "i", "x">>,
     <<"F", "i", "x">>,
     <<"f", "e", "a", "t">>,
     <<"F", "E", "A", "T">>,
     <<"f", "e", "a", "t", "u", "r", "e">>,
     <<"d", "o", "c", "s">>,
     <<"s", "t", "y", "l", "e">>,
     <<"r", "e", "f", "a", "c", "t", "o", "r">>,
     <<"p", "e", "r", "f">>,
     <<"t", "e", "s", "t">>,
     <<"c", "h", "o", "r", "e">>,
     <<"u", "p", "d", "a", "t", "e">>,
     <<"U", "p", "d", "a", "t", "e">>,
     <<"[", "f", "i", "x", "]">>,
     <<"[", "f", "e", "a", "t", "]">>,
     <<"[", "F", "e", "a", "t", "u", "r", "e", "]">>,
     <<"[", "u", "p", "d", "a", "t", "e", "]">>,
     <<"w", "i", "p">>}

Scopes == {<<>>, <<"(", "o", "u", "t", "l", "i", "n", "e", ")">>, <<"(", ")">>}

Separators ==
    {<<>>,
     <<":">>,
     <<":", " ">>,
     <<" ", ":", " ">>,
     <<"U+FF1A">>,
     <<" ">>,
     <<":", "\n", "\n">>}

Bodies ==
    {<<>>,
     <<"a", "d", "d", " ", "b", "a", "t", "c", "h", " ", "e", "x", "p", "a", "n", "s", "i", "o", "n">>,
     <<"U+4FEE", "U+590D", "U+5B57", "U+6570", "U+7EDF", "U+8BA1">>,
     <<"f", "i", "x", " ", "t", "y", "p", "o", " ", "i", "n", " ", "d", "o", "c", "s">>,
     <<"U+65B0", "U+589E", " ", "s", "t", "y", "l", "e">>,
     <<"s", "u", "b", "j", "e", "c", "t", "\n", "\n", "b", "o", "d", "y">>,
     <<"U+91CD", "U+6784", "U+4E86">>,
     <<"r", "a", "n", "d", "o", "m", " ", "t", "e", "x", "t">>,
     <<"U+4F18", "U+5316", " ", "x">>}

MessageOf(p) == p.head \o p.scope \o p.separator \o p.body

ClassifierInit ==
    /\ parts \in [head : Heads, scope : Scopes, separator : Separators, body : Bodies]
    /\ commitMessage = MessageOf(parts)
    /\ entry = NoEntry
    /\ PageIdle
    /\ EditIdle
    /\ GateIdle
    /\ DeleteIdle
    /\ ManualIdle

\* convertCommitsToChangelog: parseCommitType(commit.commit.message)
Classify ==
    /\ entry = NoEntry
    /\ entry' = parseCommitType(commitMessage)
    /\ UNCHANGED <<parts, commitMessage>>

ClassifierNext == Classify /\ UNCHANGED notClassifierVars

SpecClassifier == ClassifierInit /\ [][ClassifierNext]_classifierVars

\* ================================================= Outline.tsx: edit dialog
\* handleOpenEditModal reads outline.structure into the form and writes it
\* back on OK.  The structure document is a JSON value: a string is
\* Str(characters), an object Obj(fields), anything else JsonNull; the document
\* itself is the function from the keys it has to their values.  Of its keys
\* the model keeps characters and scenes.
Str(s) == [json |-> "string", value |-> s]
Obj(fields) == [json |-> "object", value |-> fields]
JsonNull == [json |-> "null"]

\* String.prototype.trim
RECURSIVE trimStart(_)
trimStart(s) == IF s # <<>> /\ IsSpace(Head(s)) THEN trimStart(Tail(s)) ELSE s
RECURSIVE trimEnd(_)
trimEnd(s) ==
    IF s # <<>> /\ IsSpace(s[Len(s)]) THEN trimEnd(SubSeq(s, 1, Len(s) - 1)) ELSE s
trim(s) == trimEnd(trimStart(s))

\* Array.prototype.join
RECURSIVE join(_, _)
join(list, sep) ==
    IF list = <<>> THEN <<>>
    ELSE IF Len(list) = 1 THEN list[1]
    ELSE list[1] \o sep \o join(Tail(list), sep)

\* String.prototype.split, the separator one character
RECURSIVE split(_, _)
split(s, c) ==
    LET hits == {i \in DOMAIN s : s[i] = c}
        first == CHOOSE i \in hits : \A j \in hits : i <= j
    IN  IF hits = {} THEN <<s>>
        ELSE <<SubSeq(s, 1, first - 1)>> \o split(SubSeq(s, first + 1, Len(s)), c)

\* .map(line => line.trim()).filter(line => line)
trimmedNonEmpty(list) ==
    SelectSeq([i \in DOMAIN list |-> trim(list[i])], LAMBDA line : line # <<>>)

\* structureData.<key>: undefined and [] are read alike (the guards are
\* !Array.isArray(x) || x.length === 0 for characters, and for scenes the
\* text of either is '')
fieldOf(doc, key) == IF key \in DOMAIN doc THEN doc[key] ELSE <<>>

\* the callback of characters.map in parseCharacterEntries, and the filter:
\* the entry of one element, or nothing
characterEntryOf(e) ==
    IF e.json = "string" THEN <<[name |-> e.value, type |-> "character"]>>
    ELSE IF e.json = "object" /\ "name" \in DOMAIN e.value
    THEN <<[name |-> e.value.name,
            type |-> IF "type" \in DOMAIN e.value /\ e.value.type = "organization"
                     THEN "organization" ELSE "character"]>>
    ELSE <<>>

RECURSIVE parseCharacterEntries(_)
parseCharacterEntries(characters) ==
    IF characters = <<>> THEN <<>>
    ELSE characterEntryOf(Head(characters)) \o parseCharacterEntries(Tail(characters))

namesOfType(entries, type) ==
    LET chosen == SelectSeq(entries, LAMBDA e : e.type = type)
    IN  [i \in DOMAIN chosen |-> chosen[i].name]

getCharacterNames(entries) == namesOfType(entries, "character")

getOrganizationNames(entries) == namesOfType(entries, "organization")

\* let scenesText: the lines of the scenes field of the form
scenesText(scenes) ==
    IF scenes = <<>> THEN <<>>
    ELSE IF scenes[1].json = "string"
    THEN join([i \in DOMAIN scenes |-> scenes[i].value], <<"\n">>)
    ELSE join([i \in DOMAIN scenes |->
                  scenes[i].value.location \o <<"|">>
                  \o join(scenes[i].value.characters, <<"U+3001">>) \o <<"|">>
                  \o scenes[i].value.purpose],
              <<"\n">>)

\* values.characters.filter((c) => c && c.trim())
nonBlank(names) == SelectSeq(names, LAMBDA c : c # <<>> /\ trim(c) # <<>>)

\* the names are written as they are, without a type
charactersToSaveLegacy(charNames, orgNames) ==
    [i \in DOMAIN nonBlank(charNames) |-> Str(trim(nonBlank(charNames)[i]))]
    \o [i \in DOMAIN nonBlank(orgNames) |-> Str(trim(nonBlank(orgNames)[i]))]

\* const characters: CharacterEntry[] = [...charNames.map, ...orgNames.map]
charactersToSave(charNames, orgNames) ==
    [i \in DOMAIN nonBlank(charNames) |->
        Obj([name |-> trim(nonBlank(charNames)[i]), type |-> "character"])]
    \o [i \in DOMAIN nonBlank(orgNames) |->
        Obj([name |-> trim(nonBlank(orgNames)[i]), type |-> "organization"])]

\* lines.map(line => { const parts = line.split('|'); ... }).filter(s => s !== null)
RECURSIVE sceneObjects(_)
sceneObjects(lines) ==
    IF lines = <<>> THEN <<>>
    ELSE LET sceneParts == split(Head(lines), "|")
         IN  (IF Len(sceneParts) >= 3
              THEN <<Obj([location |-> trim(sceneParts[1]),
                          characters |-> trimmedNonEmpty(split(sceneParts[2], "U+3001")),
                          purpose |-> trim(sceneParts[3])])>>
              ELSE <<>>)
             \o sceneObjects(Tail(lines))

\* every line is kept as a bare string, whatever it holds
scenesToSaveLegacy(text) ==
    LET lines == trimmedNonEmpty(split(text, "\n"))
    IN  IF text = <<>> THEN <<>> ELSE [i \in DOMAIN lines |-> Str(lines[i])]

\* let scenes: undefined (here <<>>) for an empty field; objects when a line
\* holds a '|', the lines themselves when none does
scenesToSave(text) ==
    LET lines == trimmedNonEmpty(split(text, "\n"))
        hasStructuredFormat == \E i \in DOMAIN lines : includes(lines[i], <<"|">>)
    IN  IF text = <<>> THEN <<>>
        ELSE IF hasStructuredFormat THEN sceneObjects(lines)
        ELSE [i \in DOMAIN lines |-> Str(lines[i])]

\* const newStructure = {...originalStructure, characters: ... : undefined,
\* scenes: ... : undefined}, as JSON.stringify writes it: a key whose value is
\* undefined is left out
newStructure(originalStructure, characters, scenes) ==
    LET keys == (DOMAIN originalStructure \ {"characters", "scenes"})
                \cup (IF characters # <<>> THEN {"characters"} ELSE {})
                \cup (IF scenes # <<>> THEN {"scenes"} ELSE {})
    IN  [k \in keys |-> IF k = "characters" THEN characters
                        ELSE IF k = "scenes" THEN scenes
                        ELSE originalStructure[k]]

\* ---- the structure documents the dialog is opened on
MaxEntries == 2
MaxSaves == 2

Lists(S) == UNION {[1..n -> S] : n \in 0..MaxEntries}

\* a plain name, a name with a space before it, a blank name
EntryNames == {<<"a">>, <<" ", "b">>, <<" ">>}

RawCharacters ==
    {Str(n) : n \in EntryNames}
    \cup {Obj([name |-> n, type |-> t]) :
             n \in EntryNames, t \in {"character", "organization", "faction"}}
    \cup {Obj([name |-> n]) : n \in EntryNames}
    \cup {Obj([type |-> "character"]), JsonNull}

LegacyScenes == {Str(<<"a">>), Str(<<"a", "|", "b">>), Str(<<"a", "|", "b", "|", "c">>), Str(<<" ">>), Str(<<"a">> \o <<"\n">> \o <<"b">>)}

CurrentScenes ==
    {Obj([location |-> l, characters |-> c, purpose |-> p]) :
        l \in {<<"a">>, <<>>}, c \in {<<>>, << <<"p">>, <<"q">> >>}, p \in {<<"c">>, <<"c", "|", "d">>}}

\* every characters list with a few scenes lists, and every scenes list with
\* a few characters lists: the two fields are read and written apart
FewCharacters == {<<>>, <<Str(<<"a">>)>>, <<Obj([name |-> <<"a">>, type |-> "organization"])>>}
FewScenes == {<<>>, <<Str(<<"a">>)>>, <<Obj([location |-> <<"a">>, characters |-> <<>>, purpose |-> <<"c">>])>>}

StructureDocuments ==
    {newStructure(<<>>, c, s) : c \in Lists(RawCharacters), s \in FewScenes}
    \cup {newStructure(<<>>, c, s) :
              c \in FewCharacters, s \in Lists(LegacyScenes) \cup Lists(CurrentScenes)}

EditInit ==
    /\ structure \in StructureDocuments
    /\ editForm = NoForm
    /\ saves = 0
    /\ PageIdle
    /\ ClassifierIdle
    /\ GateIdle
    /\ DeleteIdle
    /\ ManualIdle

\* handleOpenEditModal: editForm.setFieldsValue, modalApi.confirm
EditOpen ==
    /\ editForm = NoForm
    /\ saves < MaxSaves
    /\ editForm' =
           [characters |->
                getCharacterNames(parseCharacterEntries(fieldOf(structure, "characters"))),
            organizations |->
                getOrganizationNames(parseCharacterEntries(fieldOf(structure, "characters"))),
            scenes |-> scenesText(fieldOf(structure, "scenes"))]
    /\ UNCHANGED <<structure, saves>>

\* onOk, await updateOutline(...) resolved: the store holds the new structure
EditOk ==
    /\ editForm # NoForm
    /\ structure' = newStructure(structure,
                                 charactersToSave(editForm.characters,
                                                  editForm.organizations),
                                 scenesToSave(editForm.scenes))
    /\ editForm' = NoForm
    /\ saves' = saves + 1

\* onOk, await updateOutline(...) rejected: message.error('更新失败')
EditOkFails ==
    /\ editForm # NoForm
    /\ editForm' = NoForm
    /\ UNCHANGED <<structure, saves>>

\* cancelText: '取消'
EditCancel ==
    /\ editForm # NoForm
    /\ editForm' = NoForm
    /\ UNCHANGED <<structure, saves>>

EditNext ==
    \/ EditOpen /\ UNCHANGED notEditVars
    \/ EditOk /\ UNCHANGED notEditVars
    \/ EditOkFails /\ UNCHANGED notEditVars
    \/ EditCancel /\ UNCHANGED notEditVars

SpecEdit == EditInit /\ [][EditNext]_editVars

\* ================================================ changelog: freshness gate
\* (src/unnamed/part_002 and ChangelogModal of SpringFestival.tsx)
\* Times are milliseconds, as Date.now() gives them; new Date().toISOString()
\* and new Date(lastFetch).getTime() keep the millisecond, so the timestamp is
\* kept as the number.  The clock moves in steps of half an hour.
oneHourMs == 60 * 60 * 1000
TickMs == oneHourMs \div 2
MaxTicks == 4
MaxFetches == 3
MaxPage == 3

\* the first pages GitHub can answer with; a ChangelogEntry is known by its id
ChangelogPages == {<<>>, <<"c1">>, <<"c2", "c1">>}

\* the older commits: what the pages after the first can hold
OlderEntry(pageNum) == IF pageNum = 2 THEN "b1" ELSE "a1"

\* what fetchChangelog(pageNum, 30) can resolve to
PageAnswers(pageNum) ==
    IF pageNum = 1 THEN ChangelogPages ELSE {<<>>, <<OlderEntry(pageNum)>>}

\* the request is made whatever the timestamp is
shouldFetchChangelogAlways(storage, clock) == TRUE

\* shouldFetchChangelog
shouldFetchChangelog(storage, clock) ==
    IF "changelog_last_fetch" \notin DOMAIN storage THEN TRUE
    ELSE clock - storage["changelog_last_fetch"] >= oneHourMs

\* getCachedChangelog: null (here <<>>, which the caller treats alike) when
\* nothing is stored
getCachedChangelog(storage) ==
    IF "changelog_cache" \in DOMAIN storage THEN storage["changelog_cache"] ELSE <<>>

\* cacheChangelog(entries); markChangelogFetched()
cacheAndMark(storage, entries, clock) ==
    [k \in DOMAIN storage \cup {"changelog_cache", "changelog_last_fetch"} |->
        IF k = "changelog_cache" THEN entries
        ELSE IF k = "changelog_last_fetch" THEN clock
        ELSE storage[k]]

\* clearChangelogCache
clearChangelogCache(storage) ==
    [k \in DOMAIN storage \ {"changelog_cache", "changelog_last_fetch"} |-> storage[k]]

\* fetchChangelog(pageNum, 30): the request is on its way; background and
\* append say which continuation of loadChangelog waits for it
fetchChangelog(pageNum, background, append) ==
    [id |-> fetches + 1, pageNum |-> pageNum, background |-> background,
     append |-> append]

\* loadChangelog(pageNum, append) up to its await, or to its return on the
\* cached first page
loadChangelog(storage, pageNum, append) ==
    LET cached == getCachedChangelog(storage)
    IN  /\ error' = Null
        /\ IF pageNum = 1 /\ ~append /\ cached # <<>>
           THEN /\ changelog' = cached
                /\ loading' = FALSE
                /\ IF shouldFetchChangelog(storage, now)
                   THEN /\ fetches < MaxFetches
                        /\ requests' = requests \cup
                               {fetchChangelog(pageNum, TRUE, append)}
                        /\ fetches' = fetches + 1
                   ELSE UNCHANGED <<requests, fetches>>
           ELSE /\ fetches < MaxFetches
                /\ requests' = requests \cup {fetchChangelog(pageNum, FALSE, append)}
                /\ fetches' = fetches + 1
                /\ loading' = TRUE
                /\ UNCHANGED changelog

\* what an earlier session left in localStorage: nothing, or a page cached
\* together with the time of its fetch
StoredBefore ==
    {<<>>} \cup {cacheAndMark(<<>>, entries, t * TickMs) :
                    entries \in ChangelogPages, t \in 0..MaxTicks}

GateInit ==
    /\ localStorage \in StoredBefore
    /\ now \in {t * TickMs : t \in 0..MaxTicks}
    /\ "changelog_last_fetch" \in DOMAIN localStorage =>
           localStorage["changelog_last_fetch"] <= now
    /\ changelog = <<>>
    /\ loading = FALSE
    /\ visible = FALSE
    /\ requests = {}
    /\ fetches = 0
    /\ error = Null
    /\ page = 1
    /\ hasMore = TRUE
    /\ PageIdle
    /\ ClassifierIdle
    /\ EditIdle
    /\ DeleteIdle
    /\ ManualIdle

\* time passes
Tick ==
    /\ now < MaxTicks * TickMs
    /\ now' = now + TickMs
    /\ UNCHANGED <<localStorage, changelog, loading, visible, requests, fetches,
                   error, page, hasMore>>

\* useEffect on visible: loadChangelog(1, false), setPage(1), setHasMore(true)
OpenChangelog ==
    /\ ~visible
    /\ visible' = TRUE
    /\ loadChangelog(localStorage, 1, FALSE)
    /\ page' = 1
    /\ hasMore' = TRUE
    /\ UNCHANGED <<localStorage, now>>

\* onClose
CloseChangelog ==
    /\ visible
    /\ visible' = FALSE
    /\ UNCHANGED <<localStorage, now, changelog, loading, requests, fetches,
                   error, page, hasMore>>

\* handleRefresh: clearChangelogCache(), setPage(1), setHasMore(true),
\* loadChangelog(1, false); the button is loading={loading}
RefreshChangelog ==
    /\ visible
    /\ ~loading
    /\ localStorage' = clearChangelogCache(localStorage)
    /\ page' = 1
    /\ hasMore' = TRUE
    /\ loadChangelog(localStorage', 1, FALSE)
    /\ UNCHANGED <<now, visible>>

\* handleLoadMore: setPage(page + 1), loadChangelog(page + 1, true); the button
\* is shown under a non-empty list while hasMore, and is loading={loading}
handleLoadMore ==
    /\ visible
    /\ hasMore /\ changelog # <<>>
    /\ ~loading
    /\ page < MaxPage
    /\ page' = page + 1
    /\ loadChangelog(localStorage, page + 1, TRUE)
    /\ UNCHANGED <<localStorage, now, visible, hasMore>>

\* the request resolves: .then of the background refresh, or the code after
\* the await of the foreground load
FetchReturns(r, entries) ==
    /\ r \in requests
    /\ entries \in PageAnswers(r.pageNum)
    /\ requests' = requests \ {r}
    /\ IF r.background
       THEN /\ changelog' = entries
            /\ localStorage' = cacheAndMark(localStorage, entries, now)
            /\ UNCHANGED <<loading, hasMore>>
       ELSE /\ loading' = FALSE
            /\ IF entries = <<>>
               THEN /\ hasMore' = FALSE
                    /\ UNCHANGED <<changelog, localStorage>>
               ELSE /\ UNCHANGED hasMore
                    /\ IF r.append
                       THEN /\ changelog' = changelog \o entries
                            /\ UNCHANGED localStorage
                       ELSE /\ changelog' = entries
                            /\ localStorage' =
                                   IF r.pageNum = 1
                                   THEN cacheAndMark(localStorage, entries, now)
                                   ELSE localStorage
    /\ UNCHANGED <<now, visible, fetches, error, page>>

\* setError(err.message ...); request names the call that failed, for the
\* properties
failureOf(r) == [message |-> "fetch failed", request |-> r.id]

\* the request fails: .catch(console.error), or catch and finally
FetchFails(r) ==
    /\ r \in requests
    /\ requests' = requests \ {r}
    /\ loading' = IF r.background THEN loading ELSE FALSE
    /\ error' = IF r.background THEN error ELSE failureOf(r)
    /\ UNCHANGED <<localStorage, now, changelog, visible, fetches, page, hasMore>>

GateNext ==
    \/ Tick /\ UNCHANGED notGateVars
    \/ OpenChangelog /\ UNCHANGED notGateVars
    \/ CloseChangelog /\ UNCHANGED notGateVars
    \/ RefreshChangelog /\ UNCHANGED notGateVars
    \/ handleLoadMore /\ UNCHANGED notGateVars
    \/ (\E r \in requests, entries \in UNION {PageAnswers(n) : n \in 1..MaxPage} :
            FetchReturns(r, entries))
           /\ UNCHANGED notGateVars
    \/ (\E r \in requests : FetchFails(r)) /\ UNCHANGED notGateVars

SpecGate == GateInit /\ [][GateNext]_gateVars

\* ====================================================== bulk chapter deletion
MaxChapters == 3

\* data.chapters of an outline: distinct chapter ids, in list order
ChapterLists ==
    {c \in UNION {[1..n -> 1..MaxChapters] : n \in 0..MaxChapters} :
        \A i, j \in DOMAIN c : i # j => c[i] # c[j]}

PageVersions == {"Outline.tsx", "part_003"}

DeleteInit ==
    /\ handler \in PageVersions
    /\ chapters \in ChapterLists
    /\ issued = <<>>
    /\ pending = {}
    /\ outcome = "idle"
    /\ PageIdle
    /\ ClassifierIdle
    /\ EditIdle
    /\ GateIdle
    /\ ManualIdle

\* Outline.tsx: for (const chapter of chapters) { await chapterApi.deleteChapter(chapter.id) },
\* up to the first await; with no chapter the loop is over at once
handleDeleteExpandedChapters ==
    /\ handler = "Outline.tsx"
    /\ outcome = "idle"
    /\ IF chapters = <<>>
       THEN /\ outcome' = "deleted"
            /\ UNCHANGED <<issued, pending>>
       ELSE /\ issued' = <<chapters[1]>>
            /\ pending' = {chapters[1]}
            /\ outcome' = "running"
    /\ UNCHANGED <<handler, chapters>>

\* part_003: chapters.map(chapter => chapterApi.deleteChapter(chapter.id)), then
\* await Promise.all(deletePromises); Promise.all([]) resolves at once
handleDeleteExpandedChaptersAll ==
    /\ handler = "part_003"
    /\ outcome = "idle"
    /\ issued' = chapters
    /\ pending' = {chapters[i] : i \in DOMAIN chapters}
    /\ outcome' = IF chapters = <<>> THEN "deleted" ELSE "running"
    /\ UNCHANGED <<handler, chapters>>

\* a deleteChapter request resolves
deleteChapterResolves(c) ==
    /\ c \in pending
    /\ IF handler = "Outline.tsx"
       THEN IF Len(issued) < Len(chapters)
            THEN /\ issued' = Append(issued, chapters[Len(issued) + 1])
                 /\ pending' = {chapters[Len(issued) + 1]}
                 /\ UNCHANGED outcome
            ELSE /\ pending' = {}
                 /\ outcome' = "deleted"
                 /\ UNCHANGED issued
       ELSE /\ pending' = pending \ {c}
            /\ outcome' = IF outcome = "running" /\ pending' = {}
                          THEN "deleted" ELSE outcome
            /\ UNCHANGED issued
    /\ UNCHANGED <<handler, chapters>>

\* a deleteChapter request rejects: the catch, message.error; the requests
\* of Promise.all that are still out stay out
deleteChapterRejects(c) ==
    /\ c \in pending
    /\ pending' = pending \ {c}
    /\ outcome' = IF outcome = "running" THEN "failed" ELSE outcome
    /\ UNCHANGED <<handler, chapters, issued>>

DeleteNext ==
    \/ handleDeleteExpandedChapters /\ UNCHANGED notDeleteVars
    \/ handleDeleteExpandedChaptersAll /\ UNCHANGED notDeleteVars
    \/ (\E c \in pending : deleteChapterResolves(c)) /\ UNCHANGED notDeleteVars
    \/ (\E c \in pending : deleteChapterRejects(c)) /\ UNCHANGED notDeleteVars

SpecDelete == DeleteInit /\ [][DeleteNext]_deleteVars

\* ================================================= manual outline creation
MaxOrderIndex == 4
MaxDialogs == 2
MaxCreates == 2

\* Math.max(...outlines.map(o => o.order_index))
MaxOf(S) == CHOOSE m \in S : \A n \in S : n <= m

\* outlines.map(o => o.order_index)
orderIndexes(os) == {os[i].order_index : i \in DOMAIN os}

\* const nextOrderIndex = outlines.length > 0 ? Math.max(...) + 1 : 1
nextOrderIndex(os) == IF Len(os) > 0 THEN MaxOf(orderIndexes(os)) + 1 ELSE 1

\* outlines.find(o => o.order_index === values.order_index)
existingOutline(os, order_index) ==
    LET hits == SelectSeq(os, LAMBDA o : o.order_index = order_index)
    IN  IF hits = <<>> THEN Null ELSE Head(hits)

\* the outlines of the project when the page is loaded: no index twice
LoadedOutlines ==
    {<<>>,
     <<[id |-> 1, order_index |-> 1]>>,
     <<[id |-> 1, order_index |-> 1], [id |-> 2, order_index |-> 2]>>,
     <<[id |-> 1, order_index |-> 3], [id |-> 2, order_index |-> 1]>>}

ManualInit ==
    /\ backendOutlines \in LoadedOutlines
    /\ storeOutlines = backendOutlines
    /\ manualDialog = NoDialog
    /\ createRequests = {}
    /\ dialogsOpened = 0
    /\ manualEv = Notice("")
    /\ PageIdle
    /\ ClassifierIdle
    /\ EditIdle
    /\ GateIdle
    /\ DeleteIdle

\* the button 手动创建: the dialog's closure holds the outlines of this render
showManualCreateOutlineModal ==
    /\ ~manualDialog.open
    /\ dialogsOpened < MaxDialogs
    /\ dialogsOpened' = dialogsOpened + 1
    /\ manualDialog' = [open |-> TRUE, id |-> dialogsOpened + 1, busy |-> FALSE,
                        outlines |-> storeOutlines,
                        nextOrderIndex |-> nextOrderIndex(storeOutlines)]
    /\ manualEv' = [notice |-> "Proposed",
                    order_index |-> nextOrderIndex(storeOutlines)]
    /\ UNCHANGED <<backendOutlines, storeOutlines, createRequests>>

\* onOk, validateFields resolved with values.order_index: the conflict check
\* and, without a conflict, the createOutline call up to its await
ManualOk(order_index) ==
    /\ manualDialog.open /\ ~manualDialog.busy
    /\ IF existingOutline(manualDialog.outlines, order_index) # Null
       THEN /\ manualEv' = [notice |-> "Conflict", order_index |-> order_index,
                            suggested |-> manualDialog.nextOrderIndex]
            /\ UNCHANGED <<manualDialog, createRequests>>
       ELSE /\ Cardinality(createRequests) < MaxCreates
            /\ createRequests' = createRequests \cup
                   {[dialog |-> manualDialog.id, order_index |-> order_index]}
            /\ manualDialog' = [manualDialog EXCEPT !.busy = TRUE]
            /\ manualEv' = [notice |-> "Request", order_index |-> order_index]
    /\ UNCHANGED <<backendOutlines, storeOutlines, dialogsOpened>>

\* onOk, validateFields rejected: the dialog stays as it is
ManualOkInvalid ==
    /\ manualDialog.open /\ ~manualDialog.busy
    /\ manualEv' = Notice("Invalid")
    /\ UNCHANGED <<backendOutlines, storeOutlines, manualDialog, createRequests,
                   dialogsOpened>>

\* cancelText: '取消'
ManualCancel ==
    /\ manualDialog.open
    /\ manualDialog' = NoDialog
    /\ manualEv' = Notice("")
    /\ UNCHANGED <<backendOutlines, storeOutlines, createRequests, dialogsOpened>>

\* the dialog after the onOk of request r has settled
dialogAfter(r, closes) ==
    IF manualDialog.open /\ manualDialog.id = r.dialog
    THEN IF closes THEN NoDialog ELSE [manualDialog EXCEPT !.busy = FALSE]
    ELSE manualDialog

\* await outlineApi.createOutline(...) resolves: message.success,
\* await refreshOutlines(), resetFields; onOk resolves and the dialog closes
createOutlineResolves(r) ==
    /\ r \in createRequests
    /\ createRequests' = createRequests \ {r}
    /\ backendOutlines' = Append(backendOutlines,
                                 [id |-> Len(backendOutlines) + 1,
                                  order_index |-> r.order_index])
    /\ storeOutlines' = backendOutlines'
    /\ manualDialog' = dialogAfter(r, TRUE)
    /\ manualEv' = [notice |-> "Created", order_index |-> r.order_index]
    /\ UNCHANGED dialogsOpened

\* await outlineApi.createOutline(...) rejects: message.error, throw; the
\* dialog stays open
createOutlineRejects(r) ==
    /\ r \in createRequests
    /\ createRequests' = createRequests \ {r}
    /\ manualDialog' = dialogAfter(r, FALSE)
    /\ manualEv' = [notice |-> "CreateFailed", order_index |-> r.order_index]
    /\ UNCHANGED <<backendOutlines, storeOutlines, dialogsOpened>>

ManualNext ==
    \/ showManualCreateOutlineModal /\ UNCHANGED notManualVars
    \/ (\E n \in 1..MaxOrderIndex : ManualOk(n)) /\ UNCHANGED notManualVars
    \/ ManualOkInvalid /\ UNCHANGED notManualVars
    \/ ManualCancel /\ UNCHANGED notManualVars
    \/ (\E r \in createRequests : createOutlineResolves(r)) /\ UNCHANGED notManualVars
    \/ (\E r \in createRequests : createOutlineRejects(r)) /\ UNCHANGED notManualVars

SpecManual == ManualInit /\ [][ManualNext]_manualVars

\* =================================================================== claims
\* order_index of an outline, read from the store
StoreOrderIndex(outlineId) ==
    outlines[CHOOSE j \in DOMAIN outlines : outlines[j].id = outlineId].order_index

\* the task whose await settled in this step
Settled == tasks \ tasks'

\* this step opened the order warning
OrderBlocked ==
    /\ Len(modals') = Len(modals) + 1
    /\ modals'[Len(modals')].kind = "warning"

\* C1: the expansion of O is blocked as soon as the check of a preceding outline
\* reports no chapters, and the outline the warning names has no chapters, comes
\* before O, and every outline of smaller order_index was checked before it.
C1_BlockerIsFirst ==
    [][\A t \in Settled :
          (t.kind = "expand" /\ t.i <= Len(t.prev)) =>
             /\ (~getOutlineChapters(t.prev[t.i]).has_chapters
                   /\ ev'.notice # "PrevCheckFailed") => OrderBlocked
             /\ OrderBlocked =>
                   LET blocker == modals'[Len(modals')].outlineId
                   IN  /\ blocker = t.prev[t.i]
                       /\ ~getOutlineChapters(blocker).has_chapters
                       /\ StoreOrderIndex(blocker) < StoreOrderIndex(t.outlineId)
                       /\ \A p \in OutlineIds :
                              StoreOrderIndex(p) < StoreOrderIndex(blocker) =>
                                 \E j \in 1..(t.i - 1) : t.prev[j] = p]_vars

\* o1 and o2 have no chapters, o3 was to be expanded and the warning names o1
C1_Witness ==
    /\ TopIs("warning")
    /\ StoreOrderIndex(Top.target) = 3
    /\ StoreOrderIndex(Top.outlineId) = 1
    /\ \E q \in OutlineIds : StoreOrderIndex(q) = 2 /\ chapterCount[q] = 0
    /\ chapterCount[Top.outlineId] = 0

\* C2: the step that opens the order warning ends the attempt: the handler's task
\* is gone and none takes its place (no stream, no create call, no check of the
\* target), nothing is opened or written, and isExpanding is false.
C2_BlockedAttemptEnds ==
    [][OrderBlocked =>
          /\ Settled # {}
          /\ \A t \in Settled :
                /\ t.kind = "expand"
                /\ tasks' = tasks \ {t}
                /\ isExpanding' = FALSE
                /\ streamsOpened' = streamsOpened
                /\ chapterCount' = chapterCount
                /\ cachedBatchExpansionResponse' = cachedBatchExpansionResponse]_vars

\* the warning is up, nothing is pending, no stream was ever opened
C2_Witness ==
    /\ TopIs("warning")
    /\ tasks = {}
    /\ ~isExpanding
    /\ streamsOpened = 0

\* the preceding outlines of a task come in ascending order_index
AscendingPrev(t) ==
    \A j, k \in DOMAIN t.prev :
        j < k => StoreOrderIndex(t.prev[j]) < StoreOrderIndex(t.prev[k])

\* C3: a preceding check that throws neither blocks nor aborts: the same task goes
\* on to the next preceding outline in ascending order (to the target's own check
\* after the last), no dialog opens and isExpanding stays as it is.
C3_ThrowingCheckContinues ==
    [][ev'.notice = "PrevCheckFailed" =>
          /\ Settled # {}
          /\ \A t \in Settled :
                /\ t.kind = "expand"
                /\ AscendingPrev(t)
                /\ tasks' = (tasks \ {t}) \cup {[t EXCEPT !.i = t.i + 1]}
                /\ modals' = modals
                /\ isExpanding' = isExpanding]_vars

\* both preceding checks threw (no outline ever had chapters): the target's check is next
C3_Witness ==
    /\ ev.notice = "PrevCheckFailed"
    /\ streamsOpened = 0
    /\ \A o \in OutlineIds : chapterCount[o] = 0
    /\ \E t \in tasks : t.kind = "expand" /\ Len(t.prev) = 2 /\ t.i = 3

\* the tasks this step started
NewTasks == {t \in tasks' : \A u \in tasks : u.tid # t.tid}

\* C4 (the part that holds): the confirm of a single preview starts exactly one
\* create call, for the outline of the generation result and with its chapter_plans
\* as they came, a preview is confirmed at most once, and the confirm opens no stream.
C4_ConfirmSendsResultPlans ==
    [][\A t \in NewTasks :
          t.kind = "commit" =>
             /\ TopIs("preview")
             /\ NewTasks = {t}
             /\ t.outlineId = Top.response.outline_id
             /\ t.plans = Top.response.chapter_plans
             /\ Top.uses = 0
             /\ streamsOpened' = streamsOpened]_vars

\* C4: while the create call of a confirmed single preview is pending it carries
\* the chapter_plans of the generation result, and no stream has been opened since
\* that result arrived.
C4_NoStreamUntilCommitEnds ==
    \A t \in tasks :
        t.kind = "commit" =>
           /\ t.plans = t.response.chapter_plans
           /\ streamsOpened = t.streamsAtResult

\* a create call is pending and a stream was opened after its plans arrived
C4_Witness ==
    \E t \in tasks : t.kind = "commit" /\ streamsOpened > t.streamsAtResult

\* C5: every stream is opened by a request with auto_create_chapters = false, a
\* create call is started only by the confirm of an open preview, and chapters
\* appear only when such a call returns.
C5_NeverAutoCommits ==
    [][/\ ev'.notice = "Request" => ev'.request.auto_create_chapters = FALSE
       /\ streamsOpened' # streamsOpened => ev'.notice = "Request"
       /\ \A t \in NewTasks :
             /\ t.kind = "commit" => TopIs("preview") /\ ~IsBusy(Top)
             /\ t.kind = "batchCommit" => TopIs("batchPreview")
       /\ \A o \in OutlineIds :
             chapterCount'[o] > chapterCount[o] =>
                \E t \in Settled : t.kind \in {"commit", "batchCommit"}]_vars

\* a batch request went out with the commit switched off
C5_Witness ==
    /\ ev.notice = "Request"
    /\ "chapters_per_outline" \in DOMAIN ev.request
    /\ ev.request.auto_create_chapters = FALSE

\* the calls made so far are the first n results, in list order
CallsMatch(called, results, n) ==
    /\ Len(called) = n
    /\ n <= Len(results)
    /\ \A j \in 1..n :
          /\ called[j].outline_id = results[j].outline_id
          /\ called[j].chapter_plans = results[j].chapter_plans

RECURSIVE SumCreated(_)
SumCreated(called) ==
    IF called = <<>> THEN 0
    ELSE (IF Head(called).ok THEN Head(called).chapters_created ELSE 0)
         + SumCreated(Tail(called))

NumFailed(called) == Cardinality({j \in DOMAIN called : ~called[j].ok})

\* C6: during a batch commit the calls made are a prefix of the result list in list
\* order with the counters in step, and the report is made after one call per
\* result, with created the sum of chapters_created of the calls that returned and
\* failed the number of calls that were rejected.
C6_BatchCommitCallsEveryResult ==
    /\ \A t \in tasks :
          t.kind = "batchCommit" =>
             /\ CallsMatch(t.called, t.results, t.i - 1)
             /\ t.totalCreated = SumCreated(t.called)
             /\ t.errors = NumFailed(t.called)
    /\ ev.notice = "BatchReport" =>
          /\ CallsMatch(ev.called, ev.results, Len(ev.results))
          /\ ev.created = SumCreated(ev.called)
          /\ ev.failed = NumFailed(ev.called)

\* three results, the second call rejected: the first and the third were made
C6_Witness ==
    /\ ev.notice = "BatchReport"
    /\ Len(ev.called) = 3
    /\ ev.called[1].ok /\ ~ev.called[2].ok /\ ev.called[3].ok
    /\ ev.failed = 1

\* C7: the confirm of the batch preview with nothing cached shows the error and
\* stops: no task is started, no stream opened, no chapter written, the cache
\* stays empty and isExpanding is false.
C7_NoCacheConfirmStops ==
    [][(/\ TopIs("batchPreview")
        /\ cachedBatchExpansionResponse = Null
        /\ ~batchPreviewVisible'
        /\ ev'.notice # "BatchPreviewCancel") =>
          /\ ev'.notice = "PlanDataLost"
          /\ tasks' = tasks
          /\ streamsOpened' = streamsOpened
          /\ chapterCount' = chapterCount
          /\ cachedBatchExpansionResponse' = Null
          /\ isExpanding' = FALSE]_vars

\* the error was shown
C7_Witness ==
    /\ ev.notice = "PlanDataLost"
    /\ cachedBatchExpansionResponse = Null
    /\ ~batchPreviewVisible

\* C8: the report of a batch commit leaves the cache empty, the end of a single
\* commit leaves no preview holding its plans, and a confirm always takes plans
\* that no confirm took before.
C8_CommitClearsPlans ==
    [][/\ ev'.notice = "BatchReport" => cachedBatchExpansionResponse' = Null
       /\ \A t \in Settled :
             t.kind = "commit" =>
                \A i \in DOMAIN modals' :
                    ~(IsBusy(modals'[i]) /\ modals'[i].busy = t.tid)
       /\ \A t \in NewTasks :
             /\ t.kind = "commit" => Top.uses = 0
             /\ t.kind = "batchCommit" => cachedBatchExpansionResponse.uses = 0]_vars

\* a batch commit with a failure has reported and the cache is empty
C8_Witness ==
    /\ ev.notice = "BatchReport"
    /\ ev.failed > 0
    /\ ev.created > 0
    /\ cachedBatchExpansionResponse = Null

NumPreviews(ms) == Cardinality({i \in DOMAIN ms : ms[i].kind = "preview"})

\* C9 (what holds instead): a cancel leaves the cache and the backend alone, and
\* a preview comes up only on the result event of a stream: plans whose preview
\* was cancelled are never offered for confirmation again.
C9_PreviewOnlyFromResult ==
    [][/\ ev'.notice \in {"PreviewCancel", "BatchPreviewCancel"} =>
             /\ cachedBatchExpansionResponse' = cachedBatchExpansionResponse
             /\ tasks' = tasks
             /\ chapterCount' = chapterCount
       /\ ((~batchPreviewVisible /\ batchPreviewVisible')
              \/ NumPreviews(modals') > NumPreviews(modals)) =>
             \E t \in Settled : t.kind = "stream" /\ ~t.resulted]_vars

\* C9: a cancel leaves the cache and the pending calls as they are, and the
\* cancelled plans are still up for confirmation.
C9_CancelKeepsPlansConfirmable ==
    [][/\ ev'.notice = "BatchPreviewCancel" =>
             /\ cachedBatchExpansionResponse' = cachedBatchExpansionResponse
             /\ tasks' = tasks
             /\ streamsOpened' = streamsOpened
             /\ batchPreviewVisible'
       /\ ev'.notice = "PreviewCancel" =>
             /\ tasks' = tasks
             /\ streamsOpened' = streamsOpened
             /\ \E i \in DOMAIN modals' :
                   /\ modals'[i].kind = "preview"
                   /\ modals'[i].outlineId = Top.outlineId
                   /\ modals'[i].cachedPlans = Top.cachedPlans]_vars

\* the batch preview was cancelled: the plans are cached and no preview shows them
C9_Witness ==
    /\ ev.notice = "BatchPreviewCancel"
    /\ cachedBatchExpansionResponse # Null
    /\ cachedBatchExpansionResponse.uses = 0
    /\ ~batchPreviewVisible

\* C10 (what holds instead): a rejected create call of a single commit closes the
\* preview that was confirmed, writes nothing and resets isExpanding.
C10_FailedCommitClosesPreview ==
    [][\A t \in Settled :
          (t.kind = "commit" /\ ev'.notice = "CommitFailed") =>
             /\ \A i \in DOMAIN modals' :
                   ~(IsBusy(modals'[i]) /\ modals'[i].busy = t.tid)
             /\ NumPreviews(modals') <= NumPreviews(modals)
             /\ chapterCount' = chapterCount
             /\ isExpanding' = FALSE]_vars

\* C10: after a rejected create call of a single commit a preview with the same
\* plans for the same outline is open and can be confirmed.
C10_FailedCommitBackAtPreview ==
    [][\A t \in Settled :
          (t.kind = "commit" /\ ev'.notice = "CommitFailed") =>
             \E i \in DOMAIN modals' :
                 /\ modals'[i].kind = "preview"
                 /\ ~IsBusy(modals'[i])
                 /\ modals'[i].outlineId = t.outlineId
                 /\ modals'[i].cachedPlans = t.plans]_vars

\* the create call was rejected, no preview is left and nothing is pending
C10_Witness ==
    /\ ev.notice = "CommitFailed"
    /\ NumPreviews(modals) = 0
    /\ tasks = {}

\* the stored plans of an outline, as the existing-chapters check sees them
HasStoredPlans(outlineId) ==
    getOutlineChapters(outlineId).has_chapters
        /\ getOutlineChapters(outlineId).expansion_plans > 0

\* dialogs of the given kind for an outline
DialogsOf(ms, k, outlineId) ==
    {i \in DOMAIN ms : ms[i].kind = k /\ ms[i].outlineId = outlineId}

\* C11: a check that reports stored plans for O opens the read-only dialog and
\* nothing else; the dialog's two actions close every dialog and start no stream
\* and no create call; and the form that leads to a stream for O is opened only by
\* a new attempt whose check finds no stored plans for O.
C11_ExistingPlansReadOnly ==
    [][/\ \A t \in Settled :
             (t.kind = "expand" /\ t.i > Len(t.prev) /\ HasStoredPlans(t.outlineId)
                /\ isExpanding' = FALSE /\ Len(modals') > Len(modals)) =>
                /\ modals'[Len(modals')].kind = "existing"
                /\ modals'[Len(modals')].outlineId = t.outlineId
                /\ NewTasks = {}
                /\ streamsOpened' = streamsOpened
       /\ (TopIs("existing") /\ DialogsOf(modals', "existing", Top.outlineId)
                                    # DialogsOf(modals, "existing", Top.outlineId)
              /\ Settled = {}) =>
                /\ NewTasks = {}
                /\ streamsOpened' = streamsOpened
                /\ chapterCount' = chapterCount
                /\ \A i \in DOMAIN modals' :
                       modals'[i].kind \in {"sse", "batchPreview", "deleteConfirm"}
       /\ \A o \in OutlineIds :
             Cardinality(DialogsOf(modals', "config", o))
                 > Cardinality(DialogsOf(modals, "config", o)) =>
                \E t \in Settled : t.kind = "expand" /\ t.outlineId = o
                                      /\ ~HasStoredPlans(o)]_vars

\* the create call a batch commit has pending, if any
PendingBatchCall(t) ==
    IF t.kind = "batchCommit" /\ t.i <= Len(t.results)
    THEN {[tid |-> t.tid, i |-> t.i, outline_id |-> t.results[t.i].outline_id]}
    ELSE {}

\* the create calls of batch commits this step issued
NewBatchCalls ==
    (UNION {PendingBatchCall(t) : t \in tasks'}) \ (UNION {PendingBatchCall(t) : t \in tasks})

\* C11: while the read-only dialog of O is open no step opens a stream for O and
\* no step issues a create-chapters call for O, from a single or a batch commit.
C11_NoIssueWhileExisting ==
    [][\A i \in DOMAIN modals :
          modals[i].kind = "existing" =>
             /\ \A t \in NewTasks :
                   t.kind \in {"stream", "commit"} => t.outlineId # modals[i].outlineId
             /\ \A c \in NewBatchCalls : c.outline_id # modals[i].outlineId]_vars

\* the read-only dialog of O is open and a batch commit has a create call for O pending
C11_Witness ==
    /\ TopIs("existing")
    /\ HasStoredPlans(Top.outlineId)
    /\ \E t \in tasks : \E c \in PendingBatchCall(t) : c.outline_id = Top.outlineId

\* C12: the batch cache holds one response: a result event leaves exactly the
\* response it delivered in the cache, nothing else puts plans into the cache,
\* and a confirm commits exactly the cached response.
C12_CacheHoldsLastResult ==
    [][/\ ev'.notice = "BatchResult" =>
              /\ cachedBatchExpansionResponse' # Null
              /\ cachedBatchExpansionResponse'.expansion_results = ev'.data
       /\ (/\ cachedBatchExpansionResponse' # Null
           /\ cachedBatchExpansionResponse = Null) => ev'.notice = "BatchResult"
       /\ (/\ cachedBatchExpansionResponse' # Null
           /\ cachedBatchExpansionResponse # Null
           /\ cachedBatchExpansionResponse'.expansion_results #
                  cachedBatchExpansionResponse.expansion_results)
              => ev'.notice = "BatchResult"
       /\ \A t \in NewTasks : t.kind = "batchCommit" =>
              /\ cachedBatchExpansionResponse # Null
              /\ t.results = cachedBatchExpansionResponse.expansion_results]_vars

\* result B has just replaced a different result A, whose commit is pending
C12_Witness ==
    /\ ev.notice = "BatchResult"
    /\ cachedBatchExpansionResponse # Null
    /\ cachedBatchExpansionResponse.expansion_results = ev.data
    /\ streamsOpened = 2
    /\ \E t \in tasks : /\ t.kind = "batchCommit"
                        /\ t.results # ev.data
                        /\ t.results[1].outline_id = ev.data[1].outline_id

\* ------------------------------------------------ claims on parseCommitType
\* ChangelogEntry['type'], the keys of typeConfig
TypeTags ==
    {"feature", "fix", "docs", "style", "refactor", "perf", "test", "chore", "other"}

Classified == entry # NoEntry

\* the rules before the keyword checks, in the order of the claim
StructuredRules(m) == <<updateRule(m), conventionalRule(m), bracketRule(m), prefixRule(m)>>
StructuredHits(m) == {r \in DOMAIN StructuredRules(m) : StructuredRules(m)[r].matched}

\* C13: the classifier returns a value for every message, and other exactly
\* when no rule matches; its type is one of the nine tags or the token feat.
C13_TotalOtherWhenNoRule ==
    Classified =>
        /\ DOMAIN entry = {"type", "scope", "cleanMessage"}
        /\ entry.type \in TypeTags \cup {"feat"}
        /\ (StructuredHits(commitMessage) = {} /\ ~keywordRule(commitMessage).matched)
               <=> entry = otherResult(commitMessage)
        /\ entry.type = "feat" =>
               \/ conventionalRule(commitMessage).matched
               \/ bracketRule(commitMessage).matched

\* C13: the type of every value the classifier returns is one of the nine tags.
C13_TypeIsOneOfNine == Classified => entry.type \in TypeTags

\* a message no rule matches has been classified as other
C13_Witness ==
    /\ Classified
    /\ commitMessage # <<>>
    /\ StructuredHits(commitMessage) = {}
    /\ ~keywordRule(commitMessage).matched
    /\ entry.type = "other"

\* token(scope): rest or token: rest, the token in any letter case
IsConventional(p) ==
    /\ \E n \in DOMAIN Tokens : toLowerCase(p.head) = Tokens[n].word
    /\ p.scope = <<>> \/ (Len(p.scope) > 2 /\ Head(p.scope) = "(" /\ p.scope[Len(p.scope)] = ")")
    /\ p.separator \in {<<":">>, <<":", " ">>}

\* the tag the claim gives a token: feat and feature are feature
TagOfToken(word) ==
    IF word \in {<<"f", "e", "a", "t">>, <<"f", "e", "a", "t", "u", "r", "e">>} THEN "feature"
    ELSE Tokens[CHOOSE n \in DOMAIN Tokens : Tokens[n].word = word].str

ScopeOf(p) == IF p.scope = <<>> THEN <<>> ELSE SubSeq(p.scope, 2, Len(p.scope) - 1)

\* the text up to the first line feed
FirstLine(s) ==
    LET ends == {i \in DOMAIN s : s[i] = "\n"}
    IN  IF ends = {} THEN s
        ELSE SubSeq(s, 1, (CHOOSE i \in ends : \A j \in ends : i <= j) - 1)

\* C14: a conventional message with a rest is given the token as its type
\* (feat stays feat), the scope between the parentheses, and the first line of
\* the rest as cleanMessage.
C14_ConventionalTokenScopeLine ==
    (Classified /\ IsConventional(parts) /\ parts.body # <<>>) =>
        /\ entry.type = IF toLowerCase(parts.head) = <<"f", "e", "a", "t">> THEN "feat"
                        ELSE TagOfToken(toLowerCase(parts.head))
        /\ entry.scope = ScopeOf(parts)
        /\ entry.cleanMessage = FirstLine(parts.body)

\* C14: a conventional message is given the tag of its token (feature for feat
\* and for feature), its scope, and its rest as cleanMessage.
C14_ConventionalForm ==
    (Classified /\ IsConventional(parts)) =>
        /\ entry.type = TagOfToken(toLowerCase(parts.head))
        /\ entry.scope = ScopeOf(parts)
        /\ entry.cleanMessage = parts.body

\* feat(outline): add batch expansion has been classified
C14_Witness ==
    /\ Classified
    /\ commitMessage = <<"f", "e", "a", "t", "(", "o", "u", "t", "l", "i", "n", "e", ")", ":", " ", "a", "d", "d", " ", "b", "a", "t", "c", "h", " ", "e", "x", "p", "a", "n", "s", "i", "o", "n">>
    /\ entry.scope = <<"o", "u", "t", "l", "i", "n", "e">>
    /\ entry.cleanMessage = <<"a", "d", "d", " ", "b", "a", "t", "c", "h", " ", "e", "x", "p", "a", "n", "s", "i", "o", "n">>

\* the order in which the claim has the keyword groups tried
KeywordOrder == <<"fix", "perf", "docs", "feature", "style", "refactor">>
KeywordTypeHits(m) ==
    {k \in DOMAIN KeywordOrder :
        \E n \in DOMAIN Keywords :
            /\ Keywords[n].type = KeywordOrder[k]
            /\ \E w \in Keywords[n].words : includes(toLowerCase(m), w)}

\* C15: the result is that of the first rule that matches, in the order
\* update:, conventional, bracketed, prefixes; the keyword groups decide only
\* when none of these matched, in the order fix, perf, docs, feature, style,
\* refactor, and return the message as it came; otherwise the result is other.
C15_FirstMatchDecides ==
    Classified =>
        LET m == commitMessage
            S == StructuredHits(m)
            K == KeywordTypeHits(m)
        IN  /\ S # {} =>
                 entry = StructuredRules(m)[CHOOSE r \in S : \A q \in S : r <= q].result
            /\ (S = {} /\ K # {}) =>
                 /\ entry.type = KeywordOrder[CHOOSE k \in K : \A q \in K : k <= q]
                 /\ entry.cleanMessage = m
            /\ (S = {} /\ K = {}) => entry = otherResult(m)

\* a structured rule has decided a message whose text holds a keyword of
\* another type
C15_Witness ==
    /\ Classified
    /\ StructuredHits(commitMessage) # {}
    /\ KeywordTypeHits(commitMessage) # {}
    /\ entry.type # KeywordOrder[CHOOSE k \in KeywordTypeHits(commitMessage) :
                                    \A q \in KeywordTypeHits(commitMessage) : k <= q]

\* fix, in any letter case, and a full-width colon, then the text
IsFullWidthFix(p) ==
    /\ toLowerCase(p.head) = <<"f", "i", "x">>
    /\ p.scope = <<>>
    /\ p.separator = <<"U+FF1A">>

\* C16: a message that starts with fix and a full-width colon is classified
\* fix, and is returned whole: the prefix is still in cleanMessage.
C16_FullWidthFixKeepsPrefix ==
    (Classified /\ IsFullWidthFix(parts)) =>
        /\ entry.type = "fix"
        /\ entry.cleanMessage = commitMessage

\* C16: a message that starts with fix and a full-width colon is classified
\* fix and its cleanMessage is the text after the prefix.
C16_FullWidthFixStripped ==
    (Classified /\ IsFullWidthFix(parts)) =>
        /\ entry.type = "fix"
        /\ entry.cleanMessage = parts.body

\* a message with the full-width prefix and a text after it has been classified
C16_Witness ==
    /\ Classified
    /\ IsFullWidthFix(parts)
    /\ parts.body # <<>>
    /\ entry.type = "fix"

\* ------------------------------------------------ claims on the edit dialog
SaveStep == saves' = saves + 1
OpenStep == editForm = NoForm /\ editForm' # NoForm

\* a bare string or an object with a name, whose type is not organization
ReadsAsCharacter(e) ==
    \/ e.json = "string"
    \/ /\ e.json = "object"
       /\ "name" \in DOMAIN e.value
       /\ ~("type" \in DOMAIN e.value /\ e.value.type = "organization")
ReadsAsOrganization(e) ==
    /\ e.json = "object"
    /\ DOMAIN e.value = {"name", "type"}
    /\ e.value.type = "organization"
RawName(e) == IF e.json = "string" THEN e.value ELSE e.value.name
RawNames(raw, Keep(_)) ==
    LET kept == SelectSeq(raw, Keep) IN [i \in DOMAIN kept |-> RawName(kept[i])]

\* C17: opening the dialog reads bare strings and objects that are not
\* organizations as characters and organization objects as organizations, each
\* list in the order of the document; a save writes objects with name and type
\* only; and from the second save on a save without edits leaves the
\* characters list as it was.
C17_CharactersRoundTrip ==
    [][/\ OpenStep =>
            /\ editForm'.characters =
                   RawNames(fieldOf(structure, "characters"), ReadsAsCharacter)
            /\ editForm'.organizations =
                   RawNames(fieldOf(structure, "characters"), ReadsAsOrganization)
       /\ SaveStep =>
            /\ \A i \in DOMAIN fieldOf(structure', "characters") :
                   LET e == structure'.characters[i]
                   IN  /\ e.json = "object"
                       /\ DOMAIN e.value = {"name", "type"}
                       /\ e.value.type \in {"character", "organization"}
            /\ saves >= 1 =>
                   /\ fieldOf(structure', "characters") = fieldOf(structure, "characters")
                   /\ "characters" \in DOMAIN structure' <=> "characters" \in DOMAIN structure
      ]_editVars

\* the document has been saved twice and lists a character and an organization
C17_Witness ==
    /\ saves = 2
    /\ "characters" \in DOMAIN structure
    /\ \E i, j \in DOMAIN structure.characters :
           /\ structure.characters[i].value.type = "character"
           /\ structure.characters[j].value.type = "organization"

AllOfShape(scenes, shape) == \A i \in DOMAIN scenes : scenes[i].json = shape
SceneLines(scenes) == trimmedNonEmpty(split(scenesText(scenes), "\n"))
HasPipe(line) == \E i \in DOMAIN line : line[i] = "|"
PipeCount(line) == Cardinality({i \in DOMAIN line : line[i] = "|"})

\* C18: a save writes the object shape exactly when a line of the scenes text
\* holds a '|', and then one object for every line with two or more of them;
\* when no line holds one it writes the non-empty lines back as bare strings.
\* Scenes read in the object shape are all written back as objects.
C18_ScenesShapeFollowsPipes ==
    [][SaveStep =>
         LET old == fieldOf(structure, "scenes")
             new == fieldOf(structure', "scenes")
             lines == SceneLines(old)
         IN  /\ (\E i \in DOMAIN lines : HasPipe(lines[i])) =>
                    /\ AllOfShape(new, "object")
                    /\ Len(new) = Cardinality({i \in DOMAIN lines : PipeCount(lines[i]) >= 2})
             /\ (\A i \in DOMAIN lines : ~HasPipe(lines[i])) =>
                    new = [i \in DOMAIN lines |-> Str(lines[i])]
             /\ (old # <<>> /\ AllOfShape(old, "object")) =>
                    /\ Len(new) = Len(old)
                    /\ AllOfShape(new, "object")
      ]_editVars

\* C18: a save loses no scene and writes every scene in the object shape.
C18_ScenesKeptAsObjects ==
    [][SaveStep =>
         /\ Len(fieldOf(structure', "scenes")) >= Len(fieldOf(structure, "scenes"))
         /\ AllOfShape(fieldOf(structure', "scenes"), "object")
      ]_editVars

\* a save has written scenes as bare strings
C18_Witness ==
    /\ saves >= 1
    /\ "scenes" \in DOMAIN structure
    /\ AllOfShape(structure.scenes, "string")

\* ------------------------------------------- claims on the changelog dialog
HasTimestamp(storage) == "changelog_last_fetch" \in DOMAIN storage
AgeOfFetch(storage) == now - storage["changelog_last_fetch"]
HasEntriesCached(storage) ==
    "changelog_cache" \in DOMAIN storage /\ Len(storage["changelog_cache"]) > 0

\* C19: opening the dialog on a non-empty cache whose timestamp is less than
\* one hour old shows the cached entries and makes no request; and a step
\* makes a request for page 1 only when the storage the load reads holds no
\* entries, or no timestamp, or one that is an hour old or older.
C19_FreshCacheNoRequest ==
    [][/\ (~visible /\ visible' /\ HasEntriesCached(localStorage)
            /\ HasTimestamp(localStorage) /\ AgeOfFetch(localStorage) < 3600000) =>
              /\ fetches' = fetches
              /\ requests' = requests
              /\ changelog' = localStorage["changelog_cache"]
       /\ (\E r \in requests' \ requests : r.pageNum = 1) =>
              \/ ~HasEntriesCached(localStorage')
              \/ ~HasTimestamp(localStorage')
              \/ AgeOfFetch(localStorage') >= 3600000
      ]_gateVars

\* the dialog was opened on entries fetched half an hour before: they are
\* shown and no request has been made
C19_Witness ==
    /\ visible
    /\ fetches = 0
    /\ HasEntriesCached(localStorage)
    /\ HasTimestamp(localStorage)
    /\ AgeOfFetch(localStorage) = 1800000
    /\ changelog = localStorage["changelog_cache"]

\* ------------------------------------------------------- claims on the order
HasChapters(o) == chapterCount[o] > 0
HasChaptersAfter(o) == chapterCount'[o] > 0

\* every outline before one with chapters has chapters
DownwardClosed ==
    \A k, j \in OutlineIds :
        (StoreOrderIndex(j) < StoreOrderIndex(k) /\ HasChapters(k)) => HasChapters(j)
DownwardClosedAfter ==
    \A k, j \in OutlineIds :
        (StoreOrderIndex(j) < StoreOrderIndex(k) /\ HasChaptersAfter(k))
            => HasChaptersAfter(j)

\* C20: no step of the page (a commit of a single expansion, a call of a batch
\* commit, a deletion) leads from a state in which the outlines with chapters
\* are downward-closed in order_index to one in which they are not.
C20_StepsKeepDownwardClosed == [][DownwardClosed => DownwardClosedAfter]_vars

\* a batch commit has reported: the call for an earlier outline failed and
\* left it without chapters, the call for a later one created chapters
C20_Witness ==
    /\ ev.notice = "BatchReport"
    /\ \E i, j \in DOMAIN ev.called :
           /\ i < j
           /\ ~ev.called[i].ok /\ ~HasChapters(ev.called[i].outline_id)
           /\ ev.called[j].ok /\ HasChapters(ev.called[j].outline_id)
    /\ ~DownwardClosed

\* ---------------------------------------------------------------------- C21
OpensBatchStream ==
    \E t \in NewTasks : t.kind = "stream" /\ t.scope = "batch"

\* a batch stream that has not delivered a result
RunningBatchStream(t) == t.kind = "stream" /\ t.scope = "batch" /\ ~t.resulted

CreateCalls == {t \in tasks : t.kind \in {"commit", "batchCommit"}}

\* C23, within one batch commit: the call in flight is the one for results[i],
\* and the calls for all results before it have been settled, in list order
C23_CallsOfOneCommitInSequence ==
    \A t \in tasks : t.kind = "batchCommit" =>
        /\ t.i \in 1..Len(t.results)
        /\ Len(t.called) = t.i - 1
        /\ \A j \in 1..(t.i - 1) :
               /\ t.called[j].outline_id = t.results[j].outline_id
               /\ t.called[j].chapter_plans = t.results[j].chapter_plans

\* C23, as stated: while a batch commit runs its call is the only
\* create-chapters-from-plans call in flight
C23_OneCreateCallInFlight ==
    \A t \in tasks : t.kind = "batchCommit" => CreateCalls = {t}

\* the second call of a batch commit is in flight, after the first was rejected
C23_Witness ==
    \E t \in tasks :
        /\ t.kind = "batchCommit"
        /\ t.i = 2
        /\ Len(t.results) >= 2
        /\ ~t.called[1].ok

\* ---------------------------------------------------------------------- C24
\* C24, as stated: under either version of the handler at most one
\* deleteChapter request is in flight, and the requests go out in list order
C24_DeletesOneAtATime ==
    /\ Cardinality(pending) <= 1
    /\ issued = SubSeq(chapters, 1, Len(issued))

\* C24, what holds: the handler of Outline.tsx sends the requests in list
\* order, each after the one before it has resolved, and stops at a rejection
C24_SequentialInOutlineTsx ==
    handler = "Outline.tsx" =>
        /\ Cardinality(pending) <= 1
        /\ issued = SubSeq(chapters, 1, Len(issued))
        /\ pending \subseteq {issued[i] : i \in {Len(issued)} \cap DOMAIN issued}
        /\ (pending # {}) = (outcome = "running")

\* the request for the last of three chapters is the only one in flight
C24_Witness ==
    /\ handler = "Outline.tsx"
    /\ Len(chapters) = MaxChapters
    /\ issued = chapters
    /\ pending = {chapters[MaxChapters]}

\* pending runs of handleDeleteExpandedChapters on the page, each awaiting
\* one deleteChapter
DeleteRuns == {t \in tasks : t.kind = "delete"}

\* the runs of the handler do not overlap either
C24_OneDeleteRunOnThePage == Cardinality(DeleteRuns) <= 1

\* ---------------------------------------------------------------------- C25
StreamScopes == {"single", "batch"}

\* streams of a scope that have been opened and have not delivered their
\* terminal event
OpenStreams(scope) == {t \in tasks : t.kind = "stream" /\ t.scope = scope}

\* C25, as stated: a scope never has two streams open
C25_OneStreamPerScope ==
    \A scope \in StreamScopes : Cardinality(OpenStreams(scope)) <= 1

\* C25, what holds: of the open streams of the page at most one has not yet
\* delivered its result, and a stream is opened only while every other open
\* stream has delivered its result
C25_OneStreamBeforeItsResult ==
    Cardinality({t \in tasks : t.kind = "stream" /\ ~t.resulted}) <= 1

\* two streams of the batch scope are open, the older one past its result
C25_Witness ==
    \E t, u \in OpenStreams("batch") : t.resulted /\ ~u.resulted

\* ---------------------------------------------------------------------- C26
\* the stream t is gone after the step
Gone(t) == \A u \in tasks' : u.tid # t.tid

\* a step of the page that ends the stream t and is not the handling of its
\* terminal event: a cancellation
CancelsStream(t) == Next /\ Gone(t) /\ ~StreamError(t) /\ ~StreamComplete(t)

\* C26, as stated (first half): a stream that is open can be cancelled
C26_OpenStreamCanBeCancelled ==
    \A t \in tasks : t.kind = "stream" => ENABLED CancelsStream(t)

\* C26, what holds: a stream ends only by its own terminal event, onError or
\* onComplete; until then its callbacks stay connected to the page
C26_StreamEndsOnlyByItsTerminalEvent ==
    [][\A t \in tasks : (t.kind = "stream" /\ Gone(t)) =>
           (StreamError(t) \/ StreamComplete(t))]_vars

\* the progress dialog is up for a stream that has delivered nothing yet
C26_Witness ==
    /\ TopIs("sse")
    /\ isExpanding
    /\ \E t \in tasks : t.kind = "stream" /\ ~t.resulted /\ t.scope = "single"

\* ---------------------------------------------------------------------- C27
\* no order_index is held by two outlines of the list
UniqueOrderIndex(os) ==
    \A i, j \in DOMAIN os : i # j => os[i].order_index # os[j].order_index

NewCreateRequests == createRequests' \ createRequests

\* C27, as stated: the loaded list never holds an order_index twice, and no
\* createOutline request is sent for an order_index of the current list
C27_OrderIndexStaysUnique ==
    [][/\ UniqueOrderIndex(storeOutlines')
       /\ \A r \in NewCreateRequests :
              r.order_index \notin orderIndexes(storeOutlines)]_manualVars

\* C27, what holds: the check is made against the list the dialog was opened
\* with: an order_index of that list gets the conflict notice and no request,
\* any other gets one request; the proposal is the maximum of that list plus
\* one, or 1 for the empty list
C27_ConflictCheckedAgainstDialogList ==
    [][/\ \A r \in NewCreateRequests :
              /\ manualDialog.open
              /\ r.order_index \notin orderIndexes(manualDialog.outlines)
       /\ manualEv'.notice = "Conflict" =>
              /\ manualEv'.order_index \in orderIndexes(manualDialog.outlines)
              /\ NewCreateRequests = {}
              /\ manualDialog' = manualDialog
       /\ manualEv'.notice = "Proposed" =>
              /\ manualDialog'.outlines = storeOutlines
              /\ manualEv'.order_index = manualDialog'.nextOrderIndex
              /\ \A n \in orderIndexes(storeOutlines) : n < manualEv'.order_index
              /\ \/ manualEv'.order_index = 1 /\ storeOutlines = <<>>
                 \/ manualEv'.order_index - 1 \in orderIndexes(storeOutlines)]_manualVars

\* the conflict notice is up for an index of a list with a gap below its
\* maximum, and nothing has been requested
C27_Witness ==
    /\ manualEv.notice = "Conflict"
    /\ manualEv.suggested = 4
    /\ Len(storeOutlines) = 2
    /\ createRequests = {}
    /\ backendOutlines \in LoadedOutlines

\* ---------------------------------------------------------------------- C28
\* the step opens the configuration form of outline o
OpensConfigFor(o) ==
    Cardinality(DialogsOf(modals', "config", o))
        > Cardinality(DialogsOf(modals, "config", o))

\* C28, as stated: the form is opened, and a single stream is opened, only
\* for an outline that has no committed chapter
C28_FormOnlyWithoutChapters ==
    [][/\ \A o \in OutlineIds : OpensConfigFor(o) => chapterCount[o] = 0
       /\ \A t \in NewTasks : (t.kind = "stream" /\ t.scope = "single") =>
              chapterCount[t.outlineId] = 0]_vars

\* C28, what holds: the check of the outline decides by has_chapters and the
\* stored plans together: chapters with plans open the read-only dialog,
\* anything else (no chapters, or chapters without plans) opens the form; a
\* single stream is opened only from the form, for the form's outline
C28_FormUnlessChaptersWithPlans ==
    [][/\ \A t \in Settled :
              (t.kind = "expand" /\ t.i > Len(t.prev) /\ Len(modals') > Len(modals)) =>
                  LET existingChapters == getOutlineChapters(t.outlineId)
                      opened == modals'[Len(modals')]
                  IN  /\ opened.outlineId = t.outlineId
                      /\ opened.kind =
                             IF /\ existingChapters.has_chapters
                                /\ existingChapters.expansion_plans > 0
                             THEN "existing" ELSE "config"
       /\ \A o \in OutlineIds : OpensConfigFor(o) =>
              \E t \in Settled : t.kind = "expand" /\ t.outlineId = o
       /\ \A t \in NewTasks : (t.kind = "stream" /\ t.scope = "single") =>
              /\ TopIs("config")
              /\ Top.outlineId = t.outlineId]_vars

\* a single stream is open for an outline that has chapters without stored
\* plans and has had them since the page was loaded
C28_Witness ==
    /\ streamsOpened = 1
    /\ \E t \in tasks :
           /\ t.kind = "stream" /\ t.scope = "single"
           /\ chapterCount[t.outlineId] > 0
           /\ ~storedPlans[t.outlineId]

\* ---------------------------------------------------------------------- C29
\* the requests this step settles
SettledRequests == requests \ requests'

\* entries of the pages after the first
IsOlderEntry(e) == \E n \in 2..MaxPage : e = OlderEntry(n)

Shown(list, e) == \E i \in DOMAIN list : list[i] = e

\* C29, as stated: when the background revalidation of page 1 settles, the
\* entries of later pages that are shown stay shown; and when a load-more
\* fails the page counter is what it was before the load-more
C29_ListIsPagesUpToCounter ==
    [][\A r \in SettledRequests :
           /\ r.background =>
                  \A i \in DOMAIN changelog :
                      IsOlderEntry(changelog[i]) => Shown(changelog', changelog[i])
           /\ (r.append /\ error' = failureOf(r)) => page' = r.pageNum - 1]_gateVars

\* C29, what holds: handleLoadMore raises the counter by one at once and asks
\* for that page; the answer is appended to the list that is shown when it
\* arrives, an empty answer ends the paging, a failure changes neither the
\* list nor the counter, which stays raised
C29_LoadMoreAppends ==
    [][/\ \A r \in requests' \ requests : r.append =>
              /\ page' = page + 1
              /\ r.pageNum = page'
              /\ ~r.background
              /\ changelog' = changelog
       /\ \A r \in SettledRequests : r.append =>
              /\ page' = page
              /\ IF error' = failureOf(r)
                 THEN changelog' = changelog /\ hasMore' = hasMore
                 ELSE /\ \E entries \in PageAnswers(r.pageNum) :
                             changelog' = changelog \o entries
                      /\ (changelog' = changelog) => ~hasMore']_gateVars

\* the only request made was a load-more and it failed: the first page is
\* shown and the counter says 2
C29_Witness ==
    /\ visible
    /\ fetches = 1
    /\ requests = {}
    /\ error # Null
    /\ page = 2
    /\ changelog \in ChangelogPages

\* page 2 was shown and is gone: the counter says 2, the paging is not over,
\* nothing failed, and only entries of the first page are shown
C29_SecondPageDiscarded ==
    /\ visible
    /\ page = 2
    /\ hasMore
    /\ error = Null
    /\ requests = {}
    /\ changelog \in ChangelogPages

\* ---------------------------------------------------------------------- C30
\* the answer to the pending call of task t, or the terminal event of the
\* stream t
Settles(t) ==
    \/ PrevCheckReturns(t) \/ PrevCheckThrows(t)
    \/ ExistingCheckReturns(t) \/ ExistingCheckThrows(t)
    \/ StreamError(t) \/ StreamComplete(t)
    \/ CommitReturns(t) \/ CommitFails(t)
    \/ BatchCreateReturns(t) \/ BatchCreateFails(t)
    \/ DeleteReturns(t) \/ DeleteFails(t)

Answer(tid) == (\E t \in tasks : t.tid = tid /\ Settles(t)) /\ UNCHANGED notPageVars

\* the project as loaded: the outlines in ascending store order, the first
\* expanded (with or without stored plans), the others not
LiveInit ==
    /\ Init
    /\ outlines = Ascending
    /\ chapterCount = [o \in OutlineIds |-> IF o = 1 THEN 1 ELSE 0]

\* every backend call returns or fails and every stream delivers its terminal
\* event; nothing is assumed of the user
SpecLive == LiveInit /\ [][Next]_vars /\ \A tid \in 1..MaxTasks : WF_vars(Answer(tid))

\* C30: whenever isExpanding is set or the progress dialog is up, a state
\* follows in which isExpanding is false and the progress dialog is hidden
C30_AttemptsEndIdle ==
    (isExpanding \/ sseModalVisible) ~> (~isExpanding /\ ~sseModalVisible)

\* a commit has just been rejected: the attempt is over, the flag is down and
\* the progress dialog is hidden
C30_Witness ==
    /\ ev.notice = "CommitFailed"
    /\ tasks = {}
    /\ ~isExpanding
    /\ ~sseModalVisible

====
